---- MODULE Spec2Model ----
(***************************************************************************)
(* Model of the resilience and flow-control core of FinDashPro: the        *)
(* circuit breaker, the token-bucket rate limiter with its budget gate,    *)
(* the paper broker adapter, and the producer / worker pipeline with the   *)
(* per-item state machine of the two orchestrators (main.py and            *)
(* fdp/core/orchestrator.py).                                              *)
(*                                                                         *)
(* All clocks are in seconds (time.time()).  Each component has its own    *)
(* specification over the shared variables; a specification leaves the     *)
(* variables of the other components unchanged.                            *)
(***************************************************************************)
EXTENDS Integers, Sequences, FiniteSets, TLC

(***************************************************************************)
(* Circuit breaker: fdp/core/circuit_breaker.py, MLCircuitBreaker          *)
(***************************************************************************)

\* providers whose circuits are modelled
Providers == {"yahoo"}

\* MLCircuitBreaker.__init__ defaults, as passed by the orchestrators
failure_threshold == 3
base_recovery_timeout == 300
\* clamp of the adaptive timeout, circuit_breaker.py line 61
MinRecoveryTimeout == 60
MaxRecoveryTimeout == 600

\* bounds of the circuit-breaker model
MaxCalls == 2
CBMaxTicks == 3
MaxFailureTimes == 4
\* length of one clock step of the circuit-breaker specification, seconds
CBTickSeconds == base_recovery_timeout
\* sample of the values expon.rvs can draw (seconds)
ExponSamples == {0, 50, 100, 200}

CallIds == 1..MaxCalls
NoCall == [provider |-> "none"]
NoEvent == [outcome |-> "none", pre |-> "closed", trans |-> FALSE,
            solo |-> FALSE, elapsed |-> 0, invoked |-> FALSE]

VARIABLES
    now,                \* time.time()
    states,             \* MLCircuitBreaker.states[provider]
    failures,           \* MLCircuitBreaker.failures[provider]
    last_failure,       \* MLCircuitBreaker.last_failure[provider]
    success_half_open,  \* MLCircuitBreaker.success_half_open[provider]
    failure_times,      \* MLCircuitBreaker.failure_times[provider]
    cb_calls,           \* call() invocations suspended in `await func(...)`
    cb_last,            \* the latest step of call() on the provider (observer)
    cb_consec_fail,     \* failing calls since the last success (observer)
    cb_run              \* successes in a row since an uninterrupted
                        \* open -> half-open transition (observer)

VARIABLES
    daily_spent,        \* redis budget:daily_spent, in 0.001 EUR
    spent_expires,      \* time at which budget:daily_spent expires
    by_provider,        \* redis sorted set budget:by_provider
    buckets,            \* redis hashes rate_limit:<provider>:<key>
    locks,              \* AdaptiveTokenBucketRateLimiter._locks
    lock_held,          \* the asyncio.Lock objects that are held
    performance_window, \* AdaptiveTokenBucketRateLimiter.performance_window
    acq                 \* acquire() invocations in progress

rlvars == <<daily_spent, spent_expires, by_provider, buckets, locks,
            lock_held, performance_window, acq>>

VARIABLES
    cash,               \* PaperBrokerAdapter.cash, USD
    positions,          \* PaperBrokerAdapter.positions
    orders,             \* PaperBrokerAdapter.orders, by order_id
    db_pool,            \* PaperBrokerAdapter.db_pool is connected
    order_keys,         \* redis keys order:executed:... and other
                        \* idempotency keys, with their values
    po,                 \* place_order() invocations, by caller
    first_id,           \* order_id of the first accepted order per
                        \* idempotency key (observer)
    later,              \* the latest place_order made with a key after the
                        \* key's first accepted order (observer)
    fill_count          \* fills executed so far (observer)

brvars == <<cash, positions, orders, db_pool, order_keys, po, first_id,
            later, fill_count>>

VARIABLES
    variant,            \* which orchestrator runs: main.py or
                        \* fdp/core/orchestrator.py
    running,            \* FinDashProOrchestrator.running
    kill_file,          \* content of config.kill_switch_file
    stream,             \* redis stream fdp:ticker_stream
    last_delivered,     \* last-delivered id of the consumer group
    pending,            \* pending entries list: <<message, consumer>>
    producer,           \* producer() invocation
    wk,                 \* worker() tasks and the item each one processes
    signals_queue,      \* redis list signals:queue
    dead_letter,        \* redis stream fdp:failed_ticker
    metrics,            \* FinDashProOrchestrator.metrics
    read_pill           \* the worker was delivered an end marker (observer)

pipevars == <<variant, running, kill_file, stream, last_delivered, pending,
              producer, wk, signals_queue, dead_letter, metrics, read_pill>>

cbstate == <<states, failures, last_failure, success_half_open,
             failure_times, cb_calls, cb_last, cb_consec_fail, cb_run>>

cbvars == <<now, cbstate>>

\* a call of KellyPositionSizer.calculate_position_size: the sizer, the
\* arguments and what the call produced
VARIABLES
    sizer_call

\* a call of RiskManager.validate_order: the order, the value of the paper
\* account it is meant for, and what the call returned
VARIABLES
    risk_call

\* a call of MLCircuitBreaker._calculate_ml_recovery_timeout: the failure
\* times of the provider and the values the call can return
VARIABLES
    timeout_call

szvars == <<sizer_call, risk_call, timeout_call>>

\* a call of MultiSourceMarketDataManager.fetch_ohlcv
VARIABLES
    fetch,              \* the call: its position, what it gave, and the
                        \* redis key ohlcv:<symbol>:<days>:<interval>
    tasks               \* the try_provider coroutines of the call

vars == <<cbvars, rlvars, brvars, pipevars, szvars, fetch, tasks>>

\* the worker tasks; each is a caller of acquire() and of place_order()
Workers == {"w1", "w2"}

Max(a, b) == IF a >= b THEN a ELSE b
Min(a, b) == IF a <= b THEN a ELSE b

RECURSIVE SumSeq(_)
SumSeq(s) == IF s = <<>> THEN 0 ELSE Head(s) + SumSeq(Tail(s))

RECURSIVE SumOver(_, _)
SumOver(f, S) == IF S = {} THEN 0
                 ELSE LET x == CHOOSE y \in S : TRUE
                      IN f[x] + SumOver(f, S \ {x})

\* np.diff
Diff(s) == [i \in 1..(Len(s) - 1) |-> s[i + 1] - s[i]]

\* the values _calculate_ml_recovery_timeout can return when the failure
\* times of the provider are ft
_calculate_ml_recovery_timeout(ft) ==
    LET intervals == Diff(ft)
    IN IF ft = <<>> THEN {base_recovery_timeout}
       ELSE IF Len(intervals) < 2 THEN {base_recovery_timeout}
       ELSE IF SumSeq(intervals) = 0
            \* mean 0: scale 0, expon.rvs returns 0
            THEN {Max(MinRecoveryTimeout,
                      Min(MaxRecoveryTimeout, base_recovery_timeout))}
            ELSE {Max(MinRecoveryTimeout,
                      Min(MaxRecoveryTimeout,
                          base_recovery_timeout
                            + (base_recovery_timeout * x) \div 100))
                  : x \in ExponSamples}

\* the values _calculate_ml_recovery_timeout can return for the provider
RecoveryTimeouts(p) == _calculate_ml_recovery_timeout(failure_times[p])

\* line 26: has the recovery timeout elapsed
RecoveryElapsed(t, last, timeout) == t - last > timeout

ThresholdReached_Strict(n) == n > failure_threshold

\* line 48: does the failure count open the circuit
ThresholdReached(n) == n >= failure_threshold

\* line 37: do the half-open successes close the circuit
HalfOpenDone(n) == n >= 2

Others(c, p) == {d \in CallIds \ {c} : cb_calls[d].provider = p}

\* another call of the provider took a step: in-flight calls are not alone
Disturb(calls, c, p) ==
    [d \in CallIds |->
        IF d # c /\ calls[d].provider = p
        THEN [calls[d] EXCEPT !.solo = FALSE] ELSE calls[d]]

\* call(), lines 22-32: up to the await of the wrapped function
CallBegin(c, p) ==
    /\ cb_calls[c] = NoCall
    /\ \E timeout \in RecoveryTimeouts(p) :
         LET state == states[p]
             elapsed == now - last_failure[p]
             alone == Others(c, p) = {}
         IN IF state = "open" /\ ~RecoveryElapsed(now, last_failure[p], timeout)
            THEN \* CircuitOpenError, func is not invoked
                 /\ cb_last' = [cb_last EXCEPT ![p] =
                        [outcome |-> "rejected", pre |-> state, trans |-> FALSE,
                         solo |-> alone, elapsed |-> elapsed, invoked |-> FALSE]]
                 /\ cb_calls' = Disturb(cb_calls, c, p)
                 /\ UNCHANGED <<states, success_half_open, cb_run>>
            ELSE /\ states' = IF state = "open"
                              THEN [states EXCEPT ![p] = "half-open"]
                              ELSE states
                 /\ success_half_open' =
                        IF state = "open"
                        THEN [success_half_open EXCEPT ![p] = 0]
                        ELSE success_half_open
                 /\ cb_calls' = [Disturb(cb_calls, c, p) EXCEPT ![c] =
                        [provider |-> p, state |-> state, now |-> now,
                         trans |-> (state = "open"), solo |-> alone]]
                 /\ cb_last' = [cb_last EXCEPT ![p] =
                        [outcome |-> "begun", pre |-> state,
                         trans |-> (state = "open"), solo |-> alone,
                         elapsed |-> elapsed, invoked |-> TRUE]]
                 /\ cb_run' = [cb_run EXCEPT ![p] =
                        IF ~alone THEN -1
                        ELSE IF state = "open" THEN 0 ELSE @]
    /\ UNCHANGED <<now, failures, last_failure, failure_times, cb_consec_fail>>

\* call(), lines 34-43: the wrapped function returned
CallSuccess(c) ==
    /\ cb_calls[c] # NoCall
    /\ LET call == cb_calls[c]
           p == call.provider
           counted == call.state = "half-open"
           closes == counted /\ HalfOpenDone(success_half_open[p] + 1)
       IN /\ success_half_open' =
                 IF counted
                 THEN [success_half_open EXCEPT ![p] = @ + 1]
                 ELSE success_half_open
          /\ states' = IF closes THEN [states EXCEPT ![p] = "closed"]
                       ELSE states
          /\ failure_times' = IF closes
                              THEN [failure_times EXCEPT ![p] = <<>>]
                              ELSE failure_times
          /\ failures' = [failures EXCEPT ![p] = 0]
          /\ cb_calls' = [Disturb(cb_calls, c, p) EXCEPT ![c] = NoCall]
          /\ cb_last' = [cb_last EXCEPT ![p] =
                 [outcome |-> "success", pre |-> states[p],
                  trans |-> call.trans, solo |-> call.solo,
                  elapsed |-> 0, invoked |-> TRUE]]
          /\ cb_consec_fail' = [cb_consec_fail EXCEPT ![p] = 0]
          /\ cb_run' = [cb_run EXCEPT ![p] =
                 IF call.solo /\ @ >= 0 /\ @ < 3 THEN @ + 1 ELSE -1]
    /\ UNCHANGED <<now, last_failure>>

\* call(), lines 44-51: the wrapped function raised
CallFailure(c) ==
    /\ cb_calls[c] # NoCall
    /\ LET call == cb_calls[c]
           p == call.provider
       IN /\ Len(failure_times[p]) < MaxFailureTimes
          /\ failures' = [failures EXCEPT ![p] = @ + 1]
          /\ last_failure' = [last_failure EXCEPT ![p] = call.now]
          /\ failure_times' = [failure_times EXCEPT ![p] = Append(@, call.now)]
          /\ states' = IF ThresholdReached(failures[p] + 1)
                       THEN [states EXCEPT ![p] = "open"]
                       ELSE states
          /\ cb_calls' = [Disturb(cb_calls, c, p) EXCEPT ![c] = NoCall]
          /\ cb_last' = [cb_last EXCEPT ![p] =
                 [outcome |-> "failure", pre |-> states[p],
                  trans |-> call.trans, solo |-> call.solo,
                  elapsed |-> 0, invoked |-> TRUE]]
          /\ cb_consec_fail' = [cb_consec_fail EXCEPT ![p] =
                 Min(@ + 1, failure_threshold)]
          /\ cb_run' = [cb_run EXCEPT ![p] = -1]
    /\ UNCHANGED <<now, success_half_open>>

\* the task awaiting the wrapped function is cancelled: CancelledError is
\* not an Exception, neither branch of call() runs
CallCancelled(c) ==
    /\ cb_calls[c] # NoCall
    /\ LET p == cb_calls[c].provider
       IN /\ cb_calls' = [Disturb(cb_calls, c, p) EXCEPT ![c] = NoCall]
          /\ cb_run' = [cb_run EXCEPT ![p] = -1]
    /\ UNCHANGED <<now, states, failures, last_failure, success_half_open,
                   failure_times, cb_last, cb_consec_fail>>

\* the clock of the circuit-breaker specification advances
CBTick ==
    /\ now < CBMaxTicks * CBTickSeconds
    /\ now' = now + CBTickSeconds
    /\ UNCHANGED <<states, failures, last_failure, success_half_open,
                   failure_times, cb_calls, cb_last, cb_consec_fail, cb_run>>

CBStep(A) == A /\ UNCHANGED <<rlvars, brvars, pipevars, szvars, fetch, tasks>>

InitCB ==
    /\ now = 0
    /\ states = [p \in Providers |-> "closed"]
    /\ failures = [p \in Providers |-> 0]
    /\ last_failure = [p \in Providers |-> 0]
    /\ success_half_open = [p \in Providers |-> 0]
    /\ failure_times = [p \in Providers |-> <<>>]
    /\ cb_calls = [c \in CallIds |-> NoCall]
    /\ cb_last = [p \in Providers |-> NoEvent]
    /\ cb_consec_fail = [p \in Providers |-> 0]
    /\ cb_run = [p \in Providers |-> -1]

(***************************************************************************)
(* Rate limiter: fdp/core/rate_limiter.py, AdaptiveTokenBucketRateLimiter  *)
(* Money is counted in 0.001 EUR, tokens in 1/TokenScale of a token, so    *)
(* that the float arithmetic of the code is exact on integer seconds.      *)
(***************************************************************************)

\* config.daily_api_budget = 5.0 EUR
budget == 5000
\* TTL of budget:daily_spent set by record_spend, seconds
SpendTTL == 86400
\* TTL of a bucket hash set by acquire, seconds
BucketTTL == 3600
_lock_cleanup_threshold == 1000
\* _calculate_adaptive_rate: samples needed, window length, latency limits (ms)
MinSamples == 5
WindowLen == 20
FastLatency == 500
SlowLatency == 2000
TokenScale == 60

\* the (provider, key) pairs the program acquires for, and their limits:
\* config.rl_polygon = 5, and the admission slot of orchestrator.py (limit 0)
Buckets == {<<"polygon", "key">>, <<"processing", "ticker:AAPL">>}
LimitOf(b) == IF b[1] = "polygon" THEN 5 ELSE 0
\* costs passed to record_spend (0.001, 0.005, 0.01 EUR)
Costs == {5, 10}
SpendProviders == {"polygon", "notifications"}
\* MultiSourceMarketDataManager.providers, the order fetch_ohlcv tries
FetchProviders == {"yahoo", "alpha", "tiingo", "finnhub", "polygon", "fmp"}
\* latencies passed to record_performance (ms)
Latencies == {100, 3000}
\* providers whose latencies are recorded
PerfProviders == {"polygon"}
\* daily spend recorded by earlier runs of the day (4.99 EUR)
EarlierSpends == {4990}

\* bounds of the rate-limiter model
RLMaxSeconds == 30
RLMaxDays == 1
MaxRecordedSpend == 10
MaxPerfRecords == 5
RLTickSeconds == 15

\* the concurrent callers of acquire()
Acquirers == Workers
NoExpiry == -1
NoBucket == [tokens |-> -1, last_refill |-> -1, expires |-> NoExpiry]
Idle == [pc |-> "idle", result |-> "none"]

\* redis GET budget:daily_spent, nil once the TTL has run out
SpentAt(t) == IF spent_expires # NoExpiry /\ t >= spent_expires
              THEN 0 ELSE daily_spent
DailySpent == SpentAt(now)

\* redis HGET of a bucket hash, nil once the TTL has run out
BucketAt(b, t) == IF buckets[b].expires # NoExpiry /\ t >= buckets[b].expires
                  THEN NoBucket ELSE buckets[b]

BudgetOk_Inclusive(spent) == spent <= budget

\* _check_budget_atomic, lines 76-82: the Lua comparison
BudgetOk(spent) == spent < budget

\* _calculate_adaptive_rate, lines 54-65
AdaptiveRate(p, base_rate) ==
    LET w == performance_window[p]
    IN IF Len(w) < MinSamples THEN base_rate
       ELSE IF SumSeq(w) < FastLatency * Len(w) THEN (base_rate * 12) \div 10
       ELSE IF SumSeq(w) > SlowLatency * Len(w) THEN (base_rate * 8) \div 10
       ELSE base_rate

\* line 41: tokens + elapsed * rate capped by the rate, in 1/TokenScale
Refill(tokens, elapsed, rate) ==
    Min(rate * TokenScale, tokens + elapsed * rate)

\* line 48: the token count after the sleep
AfterWait(elapsed, rate) == Min(TokenScale, elapsed * rate)

\* line 43: wait_time in seconds, rounded up to the clock's resolution
WaitTime(new_tokens, rate) ==
    ((TokenScale - new_tokens) + rate - 1) \div rate

\* _locks[lock_key] creates the lock when the table has none for the key:
\* a new asyncio.Lock, which is none of the locks that are held.  A lock
\* is named by its key and a generation.
NoLock == -1
\* the locks of all the other (provider, key) pairs the program acquires
\* for (one per ticker, one per provider key): locks[OtherLocks] is their
\* number
OtherLocks == <<"other", "keys">>
LockTable(b) ==
    IF locks[b] # NoLock THEN locks
    ELSE [locks EXCEPT ![b] =
            CHOOSE g \in 0..Cardinality(Acquirers) :
               /\ <<b, g>> \notin lock_held
               /\ \A h \in 0..(g - 1) : <<b, h>> \in lock_held]
LockFree(b) == <<b, LockTable(b)[b]>> \notin lock_held

\* acquire(), lines 20-22: the budget gate
AcquireBegin(a, b) ==
    /\ acq[a].pc = "idle"
    /\ IF ~BudgetOk(DailySpent)
       THEN acq' = [acq EXCEPT ![a] =
                [pc |-> "idle", result |-> "BudgetExceededError"]]
       ELSE acq' = [acq EXCEPT ![a] =
                [pc |-> "locking", result |-> "none", bucket |-> b]]
    /\ UNCHANGED <<now, daily_spent, spent_expires, by_provider, buckets,
                   locks, lock_held, performance_window>>

\* acquire(), lines 25-45: take the lock of the key, read and refill
AcquireEnter(a) ==
    /\ acq[a].pc = "locking"
    /\ LET b == acq[a].bucket
           table == LockTable(b)
           gen == table[b]
           stored == BucketAt(b, now)
           limit == LimitOf(b)
           tokens == IF stored = NoBucket THEN limit * TokenScale
                     ELSE stored.tokens
           last_refill == IF stored = NoBucket THEN now
                          ELSE stored.last_refill
           rate == AdaptiveRate(b[1], limit)
           new_tokens == Refill(tokens, now - last_refill, rate)
       IN /\ LockFree(b)
          /\ locks' = IF Cardinality({k \in Buckets : table[k] # NoLock})
                            + table[OtherLocks] > _lock_cleanup_threshold
                      THEN [k \in DOMAIN table |->
                              IF k = OtherLocks THEN 0 ELSE NoLock]
                      ELSE table
          /\ IF new_tokens >= TokenScale
             THEN /\ acq' = [acq EXCEPT ![a] =
                        [pc |-> "writing", result |-> "none", bucket |-> b,
                         gen |-> gen, new_tokens |-> new_tokens, now |-> now]]
                  /\ lock_held' = lock_held \cup {<<b, gen>>}
             ELSE IF rate = 0
             THEN \* ZeroDivisionError at line 43, the lock is released
                  /\ acq' = [acq EXCEPT ![a] =
                        [pc |-> "idle", result |-> "ZeroDivisionError"]]
                  /\ UNCHANGED lock_held
             ELSE /\ acq' = [acq EXCEPT ![a] =
                        [pc |-> "sleeping", result |-> "none", bucket |-> b,
                         gen |-> gen, last_refill |-> last_refill,
                         rate |-> rate,
                         wake |-> now + WaitTime(new_tokens, rate)]]
                  /\ lock_held' = lock_held \cup {<<b, gen>>}
    /\ UNCHANGED <<now, daily_spent, spent_expires, by_provider, buckets,
                   performance_window>>

\* acquire(), lines 45-48: asyncio.sleep(wait_time) returns
AcquireWake(a) ==
    /\ acq[a].pc = "sleeping"
    /\ now >= acq[a].wake
    /\ acq' = [acq EXCEPT ![a] =
          [pc |-> "writing", result |-> "none", bucket |-> acq[a].bucket,
           gen |-> acq[a].gen,
           new_tokens |-> AfterWait(now - acq[a].last_refill, acq[a].rate),
           now |-> now]]
    /\ UNCHANGED <<now, daily_spent, spent_expires, by_provider, buckets,
                   locks, lock_held, performance_window>>

\* acquire(), lines 49-52: store the debited bucket, release the lock
AcquireWrite(a) ==
    /\ acq[a].pc = "writing"
    /\ LET b == acq[a].bucket
       IN /\ buckets' = [buckets EXCEPT ![b] =
                [tokens |-> acq[a].new_tokens - TokenScale,
                 last_refill |-> acq[a].now,
                 expires |-> now + BucketTTL]]
          /\ lock_held' = lock_held \ {<<b, acq[a].gen>>}
    /\ acq' = [acq EXCEPT ![a] = [pc |-> "idle", result |-> "ok"]]
    /\ UNCHANGED <<now, daily_spent, spent_expires, by_provider, locks,
                   performance_window>>

\* acquire() is called for n other keys, one call after the other, and
\* each call returns: every call leaves the lock of its key in the table,
\* and none of them finds the table above the threshold
OtherAcquires(n) ==
    /\ locks[OtherLocks] = 0
    /\ Cardinality({k \in Buckets : locks[k] # NoLock}) + n
          <= _lock_cleanup_threshold
    /\ locks' = [locks EXCEPT ![OtherLocks] = n]
    /\ UNCHANGED <<now, daily_spent, spent_expires, by_provider, buckets,
                   lock_held, performance_window, acq>>

\* record_spend, lines 84-94
RecordSpend(p, cost) ==
    /\ SumOver(by_provider, DOMAIN by_provider) + cost <= MaxRecordedSpend
    /\ daily_spent' = DailySpent + cost
    /\ spent_expires' = now + SpendTTL
    /\ by_provider' = [by_provider EXCEPT ![p] = @ + cost]
    /\ UNCHANGED <<now, buckets, locks, lock_held, performance_window, acq>>

\* the counter in redis holds what earlier runs of the day recorded
SpendFound(spent) ==
    /\ now = 0
    /\ daily_spent = 0
    /\ spent_expires = NoExpiry
    /\ \A a \in Acquirers : acq[a].pc = "idle"
    /\ daily_spent' = spent
    /\ spent_expires' = now + SpendTTL
    /\ UNCHANGED <<now, by_provider, buckets, locks, lock_held,
                   performance_window, acq>>

\* cost recorded for an alert (0.001 EUR)
AlertCost == 1

\* MultiChannelNotifier.send_alert of fdp/notifications/manager.py, lines
\* 105-120, with `channels` notifiers configured: with none it only logs,
\* otherwise it records the cost and hands the message to the channels
SendAlert(channels) ==
    /\ IF channels = 0
       THEN UNCHANGED <<now, rlvars>>
       ELSE RecordSpend("notifications", AlertCost)
    /\ UNCHANGED <<cbstate, brvars, pipevars, szvars, fetch, tasks>>

\* record_performance, lines 67-74
RecordPerformance(p, latency) ==
    /\ Len(performance_window[p]) < MaxPerfRecords
    /\ LET w == Append(performance_window[p], latency)
       IN performance_window' = [performance_window EXCEPT ![p] =
              IF Len(w) > WindowLen THEN Tail(w) ELSE w]
    /\ UNCHANGED <<now, daily_spent, spent_expires, by_provider, buckets,
                   locks, lock_held, acq>>

\* the clock advances, to the next step or to the end of a sleep
RLTick ==
    /\ \E t \in {now + RLTickSeconds}
             \cup {acq[a].wake : a \in {x \in Acquirers : acq[x].pc = "sleeping"}} :
          /\ t > now
          /\ t % SpendTTL <= RLMaxSeconds
          /\ now' = t
    /\ UNCHANGED rlvars

\* a day passes with no acquire in progress
RLDay ==
    /\ now < RLMaxDays * SpendTTL
    /\ \A a \in Acquirers : acq[a].pc = "idle"
    /\ now' = now + SpendTTL
    /\ UNCHANGED rlvars

\* the clock reaches the next UTC midnight (time.time() counts from a UTC
\* midnight) with no acquire in progress
RLMidnight ==
    /\ now < RLMaxDays * SpendTTL
    /\ \A a \in Acquirers : acq[a].pc = "idle"
    /\ now' = (now \div SpendTTL + 1) * SpendTTL
    /\ UNCHANGED rlvars

RLStep(A) == A /\ UNCHANGED <<cbstate, brvars, pipevars, szvars, fetch, tasks>>

InitRL ==
    /\ daily_spent = 0
    /\ spent_expires = NoExpiry
    /\ by_provider = [p \in SpendProviders \cup FetchProviders |-> 0]
    /\ buckets = [b \in Buckets |-> NoBucket]
    /\ locks = [k \in Buckets \cup {OtherLocks} |->
                  IF k = OtherLocks THEN 0 ELSE NoLock]
    /\ lock_held = {}
    /\ performance_window = [p \in {b[1] : b \in Buckets} |-> <<>>]
    /\ acq = [a \in Acquirers |-> Idle]

(***************************************************************************)
(* Paper broker: fdp/trading/broker_adapter_enhanced.py, and the position  *)
(* sizer and risk manager it is used with.  Money is in whole USD.         *)
(***************************************************************************)

\* config.paper_trading_capital
initial_capital == 100000
\* the mock price used when an order has no limit price, line 90
MockPrice == 100

Symbols == {"AAPL"}
ApiClients == {"api1", "api2"}
Callers == ApiClients \cup Workers
\* idempotency keys sent by the callers of the order endpoint
\* (an idempotency key is a triple, as the orchestrator's order keys are)
EmptyKey == <<"", "", 0>>
ApiKeys == {EmptyKey, <<"k1", "", 0>>}
\* orders sent to PaperBrokerAdapter.place_order by its direct callers
ApiOrders ==
    { [symbol |-> "AAPL", action |-> "buy", quantity |-> 10,
       limit_price |-> 150, key |-> k] : k \in ApiKeys }
    \cup { [symbol |-> "AAPL", action |-> "sell", quantity |-> 10,
            limit_price |-> 160, key |-> EmptyKey],
           [symbol |-> "AAPL", action |-> "buy", quantity |-> 700,
            limit_price |-> 150, key |-> EmptyKey] }

\* bounds of the broker model
MaxFills == 3
BrokerMaxNow == 2

NoPosition == [quantity |-> 0, entry_price |-> 0, market_value |-> 0]
NoOrder == [symbol |-> "none"]
\* what place_order returns or raises
Outcome(kind) == [kind |-> kind, symbol |-> "", t |-> 0]
NoResult == Outcome("none")
PoIdle == [pc |-> "idle", result |-> NoResult, order |-> NoOrder,
           after |-> FALSE]
NoLater == [result |-> NoResult, executed |-> FALSE]

\* f"paper_{order.symbol}_{int(loop.time())}", line 98
OrderId(symbol, t) == [kind |-> "paper", symbol |-> symbol, t |-> t]

\* the idempotency check of place_order, line 85
IsDuplicate(key) == key # EmptyKey /\ key \in order_keys

Price_Mock(order) == MockPrice

\* order.limit_price or 100.0, line 90
Price(order) == IF order.limit_price # 0 THEN order.limit_price ELSE MockPrice
Cost(order) == order.quantity * Price(order)

\* get_account_summary, lines 73-79
PortfolioValue ==
    cash + SumOver([y \in Symbols |-> positions[y].market_value], Symbols)
AccountSummary == [cash |-> cash, portfolio_value |-> PortfolioValue]

\* a caller invokes place_order with one of its orders (fdp/api/routes.py
\* POST /order, and the adapter's tests)
ApiPlaceOrder(c, order) ==
    /\ po[c].pc = "idle"
    /\ fill_count < MaxFills
    /\ po' = [po EXCEPT ![c] =
          [pc |-> "check", result |-> NoResult, order |-> order,
           after |-> (order.key # EmptyKey
                        /\ first_id[order.key] # NoResult)]]
    /\ UNCHANGED <<now, cash, positions, orders, db_pool, order_keys,
                   first_id, later, fill_count>>

\* place_order, lines 84-87: redis EXISTS of the idempotency key
PlaceCheck(c) ==
    /\ po[c].pc = "check"
    /\ IF IsDuplicate(po[c].order.key)
       THEN /\ po' = [po EXCEPT ![c].pc = "idle",
                                ![c].result =
                                    Outcome("duplicate_suppressed")]
            /\ later' = IF po[c].after
                        THEN [later EXCEPT ![po[c].order.key] =
                                [result |-> Outcome("duplicate_suppressed"),
                                 executed |-> FALSE]]
                        ELSE later
       ELSE /\ po' = [po EXCEPT ![c].pc = "fill"]
            /\ UNCHANGED later
    /\ UNCHANGED <<now, cash, positions, orders, db_pool, order_keys,
                   first_id, fill_count>>

\* place_order, lines 89-124: funds check, fill, ledger, audit, return
PlaceFill(c) ==
    /\ po[c].pc = "fill"
    /\ LET order == po[c].order
           key == order.key
           cost == Cost(order)
           id == OrderId(order.symbol, now)
       IN IF order.action = "buy" /\ cost > cash
          THEN \* raise Exception("Insufficient funds")
               /\ po' = [po EXCEPT ![c].pc = "idle",
                                   ![c].result =
                                       Outcome("Insufficient funds")]
               /\ later' = IF po[c].after
                           THEN [later EXCEPT ![key] =
                                   [result |-> Outcome("Insufficient funds"),
                                    executed |-> FALSE]]
                           ELSE later
               /\ UNCHANGED <<cash, positions, orders, first_id, fill_count>>
          ELSE /\ cash' = IF order.action = "buy" THEN cash - cost
                          ELSE cash + cost
               /\ positions' =
                     IF order.action = "buy"
                     THEN [positions EXCEPT ![order.symbol] =
                             [quantity |-> order.quantity,
                              entry_price |-> Price(order),
                              market_value |-> cost]]
                     ELSE [positions EXCEPT ![order.symbol] = NoPosition]
               /\ orders' = {e \in orders : e.order_id # id}
                               \cup {[order_id |-> id, order |-> order]}
               /\ fill_count' = fill_count + 1
               \* _log_paper_trade: with a pool, json.dumps raises NameError
               \* (the module never imports json)
               /\ LET result == IF db_pool THEN Outcome("NameError") ELSE id
                  IN /\ po' = [po EXCEPT ![c].pc = "idle",
                                         ![c].result = result]
                     /\ first_id' =
                           IF key \in DOMAIN first_id /\ ~db_pool
                                 /\ first_id[key] = NoResult
                           THEN [first_id EXCEPT ![key] = id]
                           ELSE first_id
                     /\ later' = IF po[c].after
                                 THEN [later EXCEPT ![key] =
                                         [result |-> result,
                                          executed |-> TRUE]]
                                 ELSE later
    /\ UNCHANGED <<now, db_pool, order_keys>>

\* init_db, lines 63-71: the pool task started by get_broker_adapter
InitDb ==
    /\ ~db_pool
    /\ db_pool' = TRUE
    /\ UNCHANGED <<now, cash, positions, orders, order_keys, po, first_id,
                   later, fill_count>>

\* the clock of the broker specification advances by a second
BrokerTick ==
    /\ now < BrokerMaxNow
    /\ now' = now + 1
    /\ UNCHANGED brvars

BrStep(A) == A /\ UNCHANGED <<cbstate, rlvars, pipevars, szvars, fetch, tasks>>

AllKeys == ApiKeys \ {EmptyKey}

InitBroker ==
    /\ cash = initial_capital
    /\ positions = [y \in Symbols |-> NoPosition]
    /\ orders = {}
    /\ db_pool = FALSE
    /\ order_keys = {}
    /\ po = [c \in Callers |-> PoIdle]
    /\ first_id = [k \in AllKeys |-> NoResult]
    /\ later = [k \in AllKeys |-> NoLater]
    /\ fill_count = 0

(***************************************************************************)
(* Pipeline: producer, workers and the per-item state machine of main.py   *)
(* (variant "main") and of fdp/core/orchestrator.py (variant "core").      *)
(* The outcome of the provider request, of the model and of redis and      *)
(* database writes is an input of the step that awaits it.                 *)
(***************************************************************************)

\* config.kill_switch_enabled, config.execution_mode
kill_switch_enabled == TRUE
execution_mode == "paper"
\* the channels MultiChannelNotifier finds configured (config.telegram_token
\* and config.discord_webhook have no default)
notifier_channels == 0
\* asyncio.timeout(120) around process_ticker_safe, seconds
ItemTimeout == 120
\* process_ticker_safe of main.py: for attempt in range(2)
MaxAttempts == 2
\* execute_signal: minimum position, USD
MinPosition == 100
\* KellyPositionSizer: kelly_fraction and the clip, in 1/KellyScale
KellyScale == 100
kelly_fraction == 25
\* RiskManager.validate_order: limit in percent of the mock portfolio value
max_position_percent == 2
RiskPortfolioValue == 100000
\* cost recorded by fetch_ohlcv for a fetched frame (0.001 EUR)
FetchCost == 1

\* the ticker universe handed to producer()
Universe == <<"AAPL">>
\* the universes handed to producer() when it is run on its own
Universes == {<<>>, <<"AAPL">>, <<"AAPL", "MSFT">>,
              <<"MSFT", "AAPL", "MSFT">>}
\* contents the kill-switch file can have ("absent": no such file)
KillContents == {"absent", "STOP\n"}
\* the buckets acquired for an item: _fetch_polygon, and the admission
\* slot of orchestrator.py
FetchBucket == <<"polygon", "key">>
AdmissionBucket(ticker) == <<"processing", "ticker:AAPL">>

\* bounds of the pipeline model
MaxBatches == 2
\* the clock stops at the end of the time allowed for the first items
PipeMaxNow == ItemTimeout

\* the fields of a message the workers read
Item(ticker) == [end |-> FALSE, ticker |-> ticker]
Marker == [end |-> TRUE, ticker |-> ""]

IsPill_Never(message_data) == FALSE

\* worker(): message_data.get('end') == 'true'
IsPill(message_data) == message_data.end

\* str.strip() on the contents the file can have
Strip(content) == IF content = "STOP\n" THEN "STOP" ELSE content

\* check_kill_switch(): True unless the switch is enabled and the file
\* says STOP; a missing file is FileNotFoundError, passed over
CheckKillSwitch ==
    ~(kill_switch_enabled /\ kill_file # "absent" /\ Strip(kill_file) = "STOP")

\* f"order:executed:{ticker}:{timestamp}"
OrderKey(ticker, timestamp) == <<"order:executed", ticker, timestamp>>

\* what the model stage of process_ticker can produce: win_probability in
\* 1/KellyScale, win_loss_ratio = num / den
PredictOutcome(kind, action, p, num, den) ==
    [kind |-> kind, action |-> action, p |-> p, num |-> num, den |-> den]
SignalInputs ==
    { PredictOutcome("signal", "sell", 80, 5, 19),
      PredictOutcome("signal", "buy", 80, 1, 4),
      PredictOutcome("signal", "sell", 80, -1, 1),
      PredictOutcome("signal", "buy", 80, 5, 17) }
PredictOutcomes ==
    SignalInputs
    \cup { PredictOutcome(k, "none", 0, 0, 1) :
             k \in {"exception", "insufficient_data", "low_confidence"} }
NoSignal == [action |-> "none", p |-> 0, num |-> 0, den |-> 1,
             timestamp |-> 0]

Abs(x) == IF x < 0 THEN -x ELSE x

\* the fraction N / D is kept in lowest terms
RECURSIVE GCD(_, _)
GCD(a, b) == IF b = 0 THEN a ELSE GCD(b, a % b)

\* np.clip(kelly_fraction_adj, -0.25, 0.25), the fraction being raw / scale
KellyClip_None(raw, scale) == raw

KellyClip(raw, scale) == Max(-(scale \div 4), Min(scale \div 4, raw))

\* KellyPositionSizer.calculate_position_size, whole USD; self is the sizer
\* (its kelly_fraction in 1/KellyScale).  The warnings of the two
\* validation branches use a logger the module never defines: NameError.
calculate_position_size(self, win_probability, num, den, account_summary) ==
    IF ~(0 < win_probability /\ win_probability < KellyScale)
    THEN [raised |-> TRUE, size |-> 0]
    ELSE IF num <= 0
    THEN [raised |-> TRUE, size |-> 0]
    ELSE LET \* kelly_fraction_raw * self.kelly_fraction = raw / scale
             scale == num * KellyScale * KellyScale
             raw == (win_probability * num
                       - (KellyScale - win_probability) * den)
                    * self.kelly_fraction
             \* kelly_fraction_adj = clipped / scale = N / D
             clipped == KellyClip(raw, scale)
             g == GCD(Abs(clipped), scale)
             N == clipped \div g
             D == scale \div g
             acct_cash == account_summary.cash
             portfolio_value == account_summary.portfolio_value
             capped == N * portfolio_value > acct_cash * D
         IN IF acct_cash <= 0 THEN [raised |-> FALSE, size |-> 0]
            ELSE IF capped
            THEN [raised |-> FALSE,
                  size |-> IF acct_cash < MinPosition THEN 0 ELSE acct_cash]
            ELSE IF N * portfolio_value < MinPosition * D
            THEN [raised |-> FALSE, size |-> 0]
            ELSE [raised |-> FALSE, size |-> (N * portfolio_value) \div D]

\* self.position_sizer of the orchestrators: KellyPositionSizer()
CalculatePositionSize(win_probability, num, den, account_summary) ==
    calculate_position_size([kelly_fraction |-> kelly_fraction],
                            win_probability, num, den, account_summary)

\* RiskManager.validate_order: allowed
ValidateOrder(order) ==
    ~(order.quantity * order.limit_price * 100
        > max_position_percent * RiskPortfolioValue)

WkPoll == [pc |-> "poll", msg |-> 0, attempt |-> 0, started |-> 0,
           wake |-> 0, result |-> "none", fills |-> 0, sig |-> NoSignal]
\* the states of an item in which the worker is suspended in an await
AwaitPcs == {"admit", "acquiring", "analyse", "exec_check", "placing",
             "publish", "retry_sleep"}
Started == variant \in {"main", "core"}
Ticker(w) == stream[wk[w].msg].ticker

\* process_ticker returns result
Return(w, result) == [wk EXCEPT ![w].pc = "done", ![w].result = result]
Raise_EndsWorker(w) == [wk EXCEPT ![w].pc = "exited"]

\* process_ticker raises: process_ticker_safe logs and sleeps 2 ** attempt
Raise(w) == [wk EXCEPT ![w].pc = "retry_sleep",
                       ![w].wake = now + 2 ^ wk[w].attempt]
CountSignal == [metrics EXCEPT !.total_signals = @ + 1]

\* main(): the kill switch is checked once, then the tasks are started;
\* orchestrator.py is started by its caller
Startup(v) ==
    /\ variant = "none"
    /\ variant' = IF v = "main" /\ ~CheckKillSwitch THEN "refused" ELSE v
    /\ UNCHANGED <<now, rlvars, brvars, running, kill_file, stream,
                   last_delivered, pending, producer, wk, signals_queue,
                   dead_letter, metrics, read_pill>>

\* the operator writes the kill-switch file
SetKillFile(content) ==
    /\ kill_file = "absent"
    /\ kill_file # content
    /\ kill_file' = content
    /\ UNCHANGED <<now, rlvars, brvars, variant, running, stream,
                   last_delivered, pending, producer, wk, signals_queue,
                   dead_letter, metrics, read_pill>>

\* orchestrator.py shutdown(): running = False, no task is cancelled
Shutdown ==
    /\ variant = "core"
    /\ running
    /\ running' = FALSE
    /\ UNCHANGED <<now, rlvars, brvars, variant, kill_file, stream,
                   last_delivered, pending, producer, wk, signals_queue,
                   dead_letter, metrics, read_pill>>

\* task.cancel() of every task.  CancelledError is raised at the await the
\* task is suspended in; neither except Exception nor the retry loop
\* catches it, so a worker leaves its loop without acknowledging its
\* message and the producer ends without writing the marker.  A worker
\* suspended in its xack has counted the item; the command has reached
\* redis (acked) or has not.
CancelTasks(acked) ==
    /\ acked \subseteq {w \in Workers : wk[w].pc = "done"}
    /\ wk' = [w \in Workers |->
                IF wk[w].pc = "exited" THEN wk[w]
                ELSE [wk[w] EXCEPT !.pc = "exited",
                                   !.result = "CancelledError"]]
    /\ metrics' =
         LET counted == {w \in Workers : wk[w].pc = "done"}
             ok == Cardinality({w \in counted : wk[w].result = "success"})
         IN [metrics EXCEPT !.processed_tickers = @ + ok,
                            !.failed_tickers = @ + Cardinality(counted) - ok]
    /\ pending' = pending \ {<<wk[w].msg, w>> : w \in acked}
    /\ acq' = [w \in Acquirers |->
                 IF wk[w].pc \in AwaitPcs THEN Idle ELSE acq[w]]
    /\ lock_held' = lock_held \
                      {<<acq[w].bucket, acq[w].gen>> :
                         w \in {x \in Workers :
                                  /\ wk[x].pc \in AwaitPcs
                                  /\ acq[x].pc \in {"sleeping", "writing"}}}
    /\ po' = [c \in Callers |->
                IF c \in Workers /\ wk[c].pc \in AwaitPcs
                THEN PoIdle ELSE po[c]]
    /\ producer' = IF producer.pc = "loop"
                   THEN [producer EXCEPT !.pc = "idle", !.i = 0,
                                         !.batches = @ + 1]
                   ELSE producer
    /\ UNCHANGED <<now, daily_spent, spent_expires, by_provider, buckets,
                   locks, performance_window, cash, positions, orders,
                   db_pool, order_keys, first_id, later, fill_count,
                   variant, kill_file, stream, last_delivered,
                   signals_queue, dead_letter, read_pill>>

\* _async_signal_handler: running = False and every other task is
\* cancelled
SignalHandler(acked) ==
    /\ Started
    /\ running
    /\ running' = FALSE
    /\ CancelTasks(acked)

\* main() of main.py, lines 519-521: once the producer task is done it
\* awaits self.ticker_queue.join(); the orchestrator has no ticker_queue,
\* so main() raises AttributeError and asyncio.run cancels the tasks that
\* are left
MainFails(acked) ==
    /\ variant = "main"
    /\ producer.pc = "idle"
    /\ producer.batches > 0
    /\ \E w \in Workers : wk[w].pc # "exited"
    /\ UNCHANGED running
    /\ CancelTasks(acked)

\* producer(): for ... in universe.iterrows() goes on to the next row
ProducerGoesOn_IgnoresRunning(i, universe) ==
    i <= Len(universe) /\ BudgetOk(DailySpent)

ProducerGoesOn(i, universe) ==
    i <= Len(universe) /\ running /\ BudgetOk(DailySpent)

\* producer(universe) is called; start is the length of the stream then
ProducerStart(universe) ==
    /\ Started
    /\ producer.pc = "idle"
    /\ producer.batches < MaxBatches
    /\ producer' = [producer EXCEPT !.pc = "loop", !.i = 1,
                                    !.universe = universe,
                                    !.start = Len(stream)]
    /\ UNCHANGED <<now, rlvars, brvars, variant, running, kill_file, stream,
                   last_delivered, pending, wk, signals_queue, dead_letter,
                   metrics, read_pill>>

\* producer(): one turn of the loop, or the end marker after it
ProducerStep ==
    /\ producer.pc = "loop"
    /\ IF ProducerGoesOn(producer.i, producer.universe)
       THEN /\ stream' = Append(stream, Item(producer.universe[producer.i]))
            /\ producer' = [producer EXCEPT !.i = @ + 1]
       ELSE /\ stream' = Append(stream, Marker)
            /\ producer' = [producer EXCEPT !.pc = "idle", !.i = 0,
                                            !.batches = @ + 1]
    /\ UNCHANGED <<now, rlvars, brvars, variant, running, kill_file,
                   last_delivered, pending, wk, signals_queue, dead_letter,
                   metrics, read_pill>>

\* worker(): xreadgroup delivers the next message of the stream
WorkerRead(w) ==
    /\ Started
    /\ running
    /\ wk[w].pc = "poll"
    /\ last_delivered < Len(stream)
    /\ LET message_id == last_delivered + 1
           message_data == stream[message_id]
       IN /\ last_delivered' = message_id
          /\ read_pill' = [read_pill EXCEPT ![w] = @ \/ message_data.end]
          /\ IF IsPill(message_data)
             THEN \* return
                  /\ wk' = [wk EXCEPT ![w] =
                              [WkPoll EXCEPT !.pc = "exited",
                                             !.msg = message_id]]
                  /\ pending' = pending \cup {<<message_id, w>>}
             ELSE IF message_data.ticker = ""
             THEN \* xack, continue
                  /\ UNCHANGED <<wk, pending>>
             ELSE /\ wk' = [wk EXCEPT ![w] =
                              [WkPoll EXCEPT !.pc = "begin",
                                             !.msg = message_id,
                                             !.started = now]]
                  /\ pending' = pending \cup {<<message_id, w>>}
    /\ UNCHANGED <<now, rlvars, brvars, variant, running, kill_file, stream,
                   producer, signals_queue, dead_letter, metrics>>

\* worker(): while self.running ends the loop
WorkerStop(w) ==
    /\ Started
    /\ ~running
    /\ wk[w].pc = "poll"
    /\ wk' = [wk EXCEPT ![w].pc = "exited"]
    /\ UNCHANGED <<now, rlvars, brvars, variant, running, kill_file, stream,
                   last_delivered, pending, producer, signals_queue,
                   dead_letter, metrics, read_pill>>

\* main.py process_ticker: fetch_ohlcv returns the cached frame if redis
\* has one, or asks the provider, which acquires
MainAcquire(w) ==
    /\ variant = "main"
    /\ wk[w].pc = "begin"
    /\ IF fetch.cached
       THEN /\ wk' = [wk EXCEPT ![w].pc = "analyse"]
            /\ UNCHANGED <<now, rlvars>>
       ELSE /\ AcquireBegin(w, FetchBucket)
            /\ wk' = [wk EXCEPT ![w].pc = "acquiring"]
    /\ UNCHANGED <<cbstate, brvars, variant, running, kill_file, stream,
                   last_delivered, pending, producer, signals_queue,
                   dead_letter, metrics, read_pill, szvars, fetch, tasks>>

\* main.py process_ticker: the provider gave a frame, which fetch_ohlcv
\* caches and records the cost of before its cancel() of the coroutines
\* raises AttributeError out of process_ticker; or, every error of the
\* provider being swallowed, fetch_ohlcv returns an empty frame, which
\* fails the quality checks
MainFetched(w, data) ==
    /\ variant = "main"
    /\ wk[w].pc = "acquiring"
    /\ acq[w].pc = "idle"
    /\ IF acq[w].result = "ok" /\ data = "frame"
       THEN /\ RecordSpend(FetchBucket[1], FetchCost)
            /\ fetch' = [fetch EXCEPT !.cached = TRUE]
            /\ wk' = Raise(w)
       ELSE /\ data = "empty"
            /\ wk' = Return(w, "failed")
            /\ UNCHANGED <<now, rlvars, fetch>>
    /\ UNCHANGED <<cbstate, brvars, variant, running, kill_file, stream,
                   last_delivered, pending, producer, signals_queue,
                   dead_letter, metrics, read_pill, szvars, tasks>>

\* redis holds the frame an earlier run cached less than a day ago
CacheFound ==
    /\ variant = "none"
    /\ ~fetch.cached
    /\ fetch.calls = 0
    /\ fetch' = [fetch EXCEPT !.cached = TRUE]
    /\ UNCHANGED <<cbvars, rlvars, brvars, pipevars, szvars, tasks>>

\* what the drift and training stage of process_ticker finds: the flag of
\* the drift monitor, whether redis holds reference_data:<ticker>, and
\* whether model:last_train:<ticker> is missing or older than
\* config.model_retrain_days
ModelInputs ==
    { [drift_detected |-> d, reference_data |-> r, retrain_needed |-> t] :
        d \in BOOLEAN, r \in BOOLEAN, t \in BOOLEAN }

\* main.py process_ticker, lines 300-402, from the state the item is in:
\* the worker, signals:queue and the metrics after fundamentals,
\* sentiment, features, drift, model and prediction.  ref_data_key is
\* bound only in the branch of a detected drift (line 330), so storing the
\* reference data after a training (line 352) raises UnboundLocalError
\* when no drift was detected.
PredictStage(w, out, drift_detected, retrain_needed) ==
    LET same == [wk |-> wk, signals_queue |-> signals_queue,
                 metrics |-> metrics]
    IN IF out.kind = "exception"
       THEN [same EXCEPT !.wk = Raise(w)]
       ELSE IF out.kind = "insufficient_data"
       THEN [same EXCEPT !.wk = Return(w, "failed")]
       ELSE IF retrain_needed /\ ~drift_detected
       THEN [same EXCEPT !.wk = Raise(w)]
       ELSE IF out.kind = "low_confidence"
       THEN [same EXCEPT !.wk = Return(w, "success"),
                         !.metrics = CountSignal]
       ELSE IF execution_mode # "alert_only"
       THEN [same EXCEPT
               !.wk = [wk EXCEPT ![w].pc = "exec_check",
                                 ![w].sig = [action |-> out.action,
                                             p |-> out.p, num |-> out.num,
                                             den |-> out.den,
                                             timestamp |-> now]],
               !.signals_queue = Append(signals_queue, Ticker(w))]
       ELSE [same EXCEPT
               !.wk = Return(w, "success"),
               !.signals_queue = Append(signals_queue, Ticker(w)),
               !.metrics = CountSignal]

\* main.py process_ticker, lines 300-402: the stage above, and the alert
\* of a detected drift that has reference data (lines 329-335)
MainPredict(w, out, m) ==
    /\ variant = "main"
    /\ wk[w].pc = "analyse"
    /\ LET after == PredictStage(w, out, m.drift_detected, m.retrain_needed)
       IN /\ wk' = after.wk
          /\ signals_queue' = after.signals_queue
          /\ metrics' = after.metrics
    /\ IF /\ out.kind \notin {"exception", "insufficient_data"}
          /\ m.drift_detected /\ m.reference_data
          /\ notifier_channels # 0
       THEN RecordSpend("notifications", AlertCost)
       ELSE UNCHANGED <<now, rlvars>>
    /\ UNCHANGED <<brvars, variant, running, kill_file, stream,
                   last_delivered, pending, producer, dead_letter,
                   read_pill>>

\* execute_signal, lines 414-454: the order key is looked up, the position
\* sized and checked, and place_order called
ExecCheck(w) ==
    /\ variant = "main"
    /\ wk[w].pc = "exec_check"
    /\ po[w].pc = "idle"
    /\ LET signal == wk[w].sig
           order_key == OrderKey(Ticker(w), signal.timestamp)
           sized == CalculatePositionSize(signal.p, signal.num, signal.den,
                                          AccountSummary)
           order == [symbol |-> Ticker(w), action |-> signal.action,
                     quantity |-> sized.size, limit_price |-> 0,
                     key |-> order_key]
       IN IF order_key \in order_keys
          THEN /\ wk' = Return(w, "success")
               /\ metrics' = CountSignal
               /\ UNCHANGED po
          ELSE IF sized.raised
          THEN /\ wk' = Raise(w)
               /\ UNCHANGED <<po, metrics>>
          ELSE IF sized.size < MinPosition \/ ~ValidateOrder(order)
          THEN /\ wk' = Return(w, "success")
               /\ metrics' = CountSignal
               /\ UNCHANGED po
          ELSE /\ wk' = [wk EXCEPT ![w].pc = "placing"]
               /\ po' = [po EXCEPT ![w] =
                           [pc |-> "check", result |-> NoResult,
                            order |-> order, after |-> FALSE]]
               /\ UNCHANGED metrics
    /\ UNCHANGED <<now, rlvars, cash, positions, orders, db_pool,
                   order_keys, first_id, later, fill_count, variant,
                   running, kill_file, stream, last_delivered, pending,
                   producer, signals_queue, dead_letter, read_pill>>

\* place_order called by a worker: the idempotency check
WorkerPlaceCheck(w) ==
    /\ PlaceCheck(w)
    /\ UNCHANGED <<rlvars, pipevars>>

\* place_order called by a worker: the fill
WorkerPlaceFill(w) ==
    /\ PlaceFill(w)
    /\ wk' = [wk EXCEPT ![w].fills =
                IF fill_count' > fill_count THEN @ + 1 ELSE @]
    /\ UNCHANGED <<rlvars, variant, running, kill_file, stream,
                   last_delivered, pending, producer, signals_queue,
                   dead_letter, metrics, read_pill>>

\* execute_signal, lines 454-455: place_order returns or raises, and the
\* order key is stored (redis SETEX succeeds or fails)
ExecStore(w, ok) ==
    /\ variant = "main"
    /\ wk[w].pc = "placing"
    /\ po[w].pc = "idle"
    /\ po[w].result # NoResult
    /\ po' = [po EXCEPT ![w] = PoIdle]
    /\ IF po[w].result.kind = "paper" /\ ok
       THEN /\ order_keys' = order_keys \cup {po[w].order.key}
            /\ wk' = [wk EXCEPT ![w].pc = "publish"]
       ELSE /\ (po[w].result.kind = "paper" \/ ok)
            /\ wk' = Raise(w)
            /\ UNCHANGED order_keys
    /\ UNCHANGED <<now, rlvars, cash, positions, orders, db_pool, first_id,
                   later, fill_count, variant, running, kill_file, stream,
                   last_delivered, pending, producer, signals_queue,
                   dead_letter, metrics, read_pill>>

\* execute_signal, lines 458-470: the order is published and audited
\* (either write succeeds or fails), process_ticker counts the signal
ExecPublish(w, ok) ==
    /\ variant = "main"
    /\ wk[w].pc = "publish"
    /\ IF ok
       THEN /\ wk' = Return(w, "success")
            /\ metrics' = CountSignal
       ELSE /\ wk' = Raise(w)
            /\ UNCHANGED metrics
    /\ UNCHANGED <<now, rlvars, brvars, variant, running, kill_file, stream,
                   last_delivered, pending, producer, signals_queue,
                   dead_letter, read_pill>>

\* process_ticker_safe of main.py: for attempt in range(2) has a next turn
RetryAllowed_Always(attempt) == TRUE

RetryAllowed(attempt) == attempt + 1 < MaxAttempts

\* process_ticker_safe of main.py: the sleep ends; the next attempt, or
\* failed_tickers += 1 and None
MainRetry(w) ==
    /\ variant = "main"
    /\ wk[w].pc = "retry_sleep"
    /\ now >= wk[w].wake
    /\ IF RetryAllowed(wk[w].attempt)
       THEN /\ wk' = [wk EXCEPT ![w].pc = "begin", ![w].attempt = @ + 1]
            /\ UNCHANGED metrics
       ELSE /\ wk' = Return(w, "none")
            /\ metrics' = [metrics EXCEPT !.failed_tickers = @ + 1]
    /\ UNCHANGED <<now, rlvars, brvars, variant, running, kill_file, stream,
                   last_delivered, pending, producer, signals_queue,
                   dead_letter, read_pill>>

\* orchestrator.py process_ticker_safe, lines 284-285
CoreBegin(w) ==
    /\ variant = "core"
    /\ wk[w].pc = "begin"
    /\ wk' = IF ~CheckKillSwitch THEN Return(w, "killed")
             ELSE [wk EXCEPT ![w].pc = "admit"]
    /\ UNCHANGED <<now, rlvars, brvars, variant, running, kill_file, stream,
                   last_delivered, pending, producer, signals_queue,
                   dead_letter, metrics, read_pill>>

\* orchestrator.py process_ticker_safe, line 287
CoreAcquire(w) ==
    /\ variant = "core"
    /\ wk[w].pc = "admit"
    /\ AcquireBegin(w, AdmissionBucket(Ticker(w)))
    /\ wk' = [wk EXCEPT ![w].pc = "acquiring"]
    /\ UNCHANGED <<brvars, variant, running, kill_file, stream,
                   last_delivered, pending, producer, signals_queue,
                   dead_letter, metrics, read_pill>>

\* orchestrator.py process_ticker_safe, lines 287-344: acquire raises and
\* the item fails.  With a limit of 0 acquire never returns, so the steps
\* after it are not reached.
CoreAcquired(w) ==
    /\ variant = "core"
    /\ wk[w].pc = "acquiring"
    /\ acq[w].pc = "idle"
    /\ wk' = IF acq[w].result = "ok" THEN [wk EXCEPT ![w].pc = "fetching"]
             ELSE Return(w, "failed")
    /\ UNCHANGED <<now, rlvars, brvars, variant, running, kill_file, stream,
                   last_delivered, pending, producer, signals_queue,
                   dead_letter, metrics, read_pill>>

\* worker(): the counters and the xack after process_ticker_safe returned
WorkerAck(w) ==
    /\ wk[w].pc = "done"
    /\ metrics' = IF wk[w].result = "success"
                  THEN [metrics EXCEPT !.processed_tickers = @ + 1]
                  ELSE [metrics EXCEPT !.failed_tickers = @ + 1]
    /\ pending' = pending \ {<<wk[w].msg, w>>}
    /\ wk' = [wk EXCEPT ![w] = WkPoll]
    /\ UNCHANGED <<now, rlvars, brvars, variant, running, kill_file, stream,
                   last_delivered, producer, signals_queue, dead_letter,
                   read_pill>>

\* worker(): asyncio.timeout(120) cancels the item at its await; main.py
\* acknowledges the message, orchestrator.py writes a dead letter
WorkerTimeout(w) ==
    /\ wk[w].pc \in AwaitPcs
    /\ now - wk[w].started >= ItemTimeout
    /\ IF variant = "main"
       THEN /\ pending' = pending \ {<<wk[w].msg, w>>}
            /\ UNCHANGED dead_letter
       ELSE /\ dead_letter' = Append(dead_letter,
                                     [ticker |-> Ticker(w),
                                      reason |-> "timeout"])
            /\ UNCHANGED pending
    /\ wk' = [wk EXCEPT ![w] = WkPoll]
    /\ acq' = [acq EXCEPT ![w] = Idle]
    /\ lock_held' = IF acq[w].pc \in {"sleeping", "writing"}
                    THEN lock_held \ {<<acq[w].bucket, acq[w].gen>>}
                    ELSE lock_held
    /\ po' = [po EXCEPT ![w] = PoIdle]
    /\ UNCHANGED <<now, daily_spent, spent_expires, by_provider, buckets,
                   locks, performance_window, cash, positions, orders,
                   db_pool, order_keys, first_id, later, fill_count,
                   variant, running, kill_file, stream, last_delivered,
                   producer, signals_queue, metrics, read_pill>>

\* acquire() called by a worker goes on to its next step
WorkerAcquireStep(w) ==
    /\ IF acq[w].pc = "locking" THEN AcquireEnter(w)
       ELSE IF acq[w].pc = "sleeping" THEN AcquireWake(w)
       ELSE AcquireWrite(w)
    /\ UNCHANGED <<brvars, pipevars>>

\* the pool task of the paper broker connects
PipeInitDb == InitDb /\ UNCHANGED <<rlvars, pipevars>>

\* the clock advances to the end of a sleep, of a wait for tokens or of
\* the time allowed for an item
PipeTick ==
    /\ \E t \in {wk[w].wake : w \in {x \in Workers :
                                     wk[x].pc = "retry_sleep"}}
             \cup {acq[w].wake : w \in {x \in Workers :
                                         acq[x].pc = "sleeping"}}
             \cup {wk[w].started + ItemTimeout :
                     w \in {x \in Workers : wk[x].pc \in AwaitPcs}} :
          /\ t > now
          /\ t <= PipeMaxNow
          /\ now' = t
    /\ UNCHANGED <<rlvars, brvars, pipevars>>

PipeStep(A) == A /\ UNCHANGED <<cbstate, szvars, fetch, tasks>>

InitPipeline ==
    /\ variant = "none"
    /\ running = TRUE
    /\ kill_file = "absent"
    /\ stream = <<>>
    /\ last_delivered = 0
    /\ pending = {}
    /\ producer = [pc |-> "idle", i |-> 0, batches |-> 0,
                   universe |-> <<>>, start |-> 0]
    /\ wk = [w \in Workers |-> WkPoll]
    /\ signals_queue = <<>>
    /\ dead_letter = <<>>
    /\ metrics = [processed_tickers |-> 0, failed_tickers |-> 0,
                  total_signals |-> 0]
    /\ read_pill = [w \in Workers |-> FALSE]

(***************************************************************************)
(* Position sizer called directly: fdp/trading/position_sizer.py.          *)
(* Probabilities and the sizer's kelly_fraction are in 1/KellyScale, the   *)
(* win/loss ratio is num / den, money is in whole USD.                     *)
(***************************************************************************)

\* kelly_fraction of the sizers built by the orchestrators and the tests
SizerFractions == {25, 100}
\* arguments of the calls
WinProbabilities == {-10, 0, 10, 60, 80, 95, 100, 150}
WinLossRatios == {<<0, 1>>, <<-1, 1>>, <<1, 2>>, <<2, 1>>, <<5, 17>>,
                  <<10, 1>>}
SizerCash == {0, 50, 1000, 10000, 100000}
SizerPortfolioValues == {300, 1000, 100000, 400000}

NoSizerCall ==
    [called |-> FALSE, kelly_fraction |-> 0, win_probability |-> 0,
     num |-> 0, den |-> 1, cash |-> 0, portfolio_value |-> 0,
     raised |-> FALSE, size |-> 0]

\* sizer.calculate_position_size(win_probability, win_loss_ratio,
\* account_summary) on KellyPositionSizer(kelly_fraction)
SizerCall(kf, win_probability, ratio, acct_cash, portfolio_value) ==
    /\ LET out == calculate_position_size(
                      [kelly_fraction |-> kf], win_probability,
                      ratio[1], ratio[2],
                      [cash |-> acct_cash,
                       portfolio_value |-> portfolio_value])
       IN sizer_call' =
             [called |-> TRUE, kelly_fraction |-> kf,
              win_probability |-> win_probability,
              num |-> ratio[1], den |-> ratio[2], cash |-> acct_cash,
              portfolio_value |-> portfolio_value,
              raised |-> out.raised, size |-> out.size]
    /\ UNCHANGED <<cbvars, rlvars, brvars, pipevars, fetch, tasks, risk_call,
                   timeout_call>>

InitSizer == sizer_call = NoSizerCall

(***************************************************************************)
(* Risk manager called directly: fdp/trading/risk_manager.py, by           *)
(* execute_signal and by the orders route of the API.  Money is in whole   *)
(* USD.                                                                    *)
(***************************************************************************)

\* quantity and limit_price of the orders (limit_price 0.0 is the default
\* of EnhancedOrder), and config.paper_trading_capital of the account
RiskQuantities == {0, 1, 5, 10, 13, 14, 100, 1000}
RiskPrices == {0, 1, 150, 200, 2000}
PaperCapitals == {50000, 100000, 200000}

\* risk.validate_order(order) for an order meant for a paper account that
\* is worth account_value
RiskCall(quantity, limit_price, account_value) ==
    /\ LET order == [quantity |-> quantity, limit_price |-> limit_price]
           allowed == ValidateOrder(order)
       IN risk_call' =
             [called |-> TRUE, quantity |-> quantity,
              limit_price |-> limit_price, account_value |-> account_value,
              allowed |-> allowed,
              reason |-> IF allowed THEN "OK" ELSE "exceeds limit"]
    /\ UNCHANGED <<cbvars, rlvars, brvars, pipevars, fetch, tasks,
                   sizer_call, timeout_call>>

(***************************************************************************)
(* Market data: fdp/data/providers/market_data.py, fetch_ohlcv and the     *)
(* try_provider coroutines it runs through asyncio.as_completed.           *)
(***************************************************************************)

\* asyncio.Semaphore(5) of the manager
SemaphoreSize == 5
\* the providers that have an API key in the configuration
KeySets == {FetchProviders, {"yahoo", "polygon"}, {"yahoo"}}
\* calls of fetch_ohlcv that are followed
MaxFetches == 2

NoTask == [pc |-> "none", result |-> "none"]

\* fetch_ohlcv, lines 53-89: the cached frame if there is one, or one
\* try_provider coroutine for each provider
FetchStart(keys) ==
    /\ fetch.pc \in {"idle", "returned"}
    /\ fetch.calls < MaxFetches
    /\ \A p \in FetchProviders : tasks[p].pc \in {"none", "done"}
    /\ IF fetch.cached
       THEN /\ fetch' = [fetch EXCEPT !.pc = "returned", !.result = "frame",
                                      !.calls = @ + 1, !.keys = keys]
            /\ tasks' = [p \in FetchProviders |-> NoTask]
       ELSE /\ fetch' = [fetch EXCEPT !.pc = "gather", !.result = "none",
                                      !.calls = @ + 1, !.keys = keys]
            /\ tasks' = [p \in FetchProviders |->
                            [pc |-> "created", result |-> "none"]]
    /\ UNCHANGED <<cbvars, rlvars, brvars, pipevars, szvars>>

\* try_provider, line 75: the coroutine gets through the semaphore, which
\* the coroutines that entered and have not returned hold
TaskEnter(p) ==
    /\ tasks[p].pc = "created"
    /\ Cardinality({q \in FetchProviders :
                       tasks[q].pc \in {"entered", "calling"}})
          < SemaphoreSize
    /\ tasks' = [tasks EXCEPT ![p].pc = "entered"]
    /\ UNCHANGED <<cbvars, rlvars, brvars, pipevars, szvars, fetch>>

\* as_completed, lines 90-99, on the completion of a coroutine: a frame
\* makes fetch_ohlcv call cancel() on the coroutine objects, which raises
\* AttributeError; after the last empty frame it returns an empty one.
\* The coroutines that have not returned go on either way.
Completed(p, result) ==
    IF fetch.pc # "gather" THEN fetch
    ELSE IF result = "frame"
    THEN [fetch EXCEPT !.pc = "returned", !.result = "AttributeError",
                       !.cached = TRUE]
    ELSE IF \A q \in FetchProviders \ {p} : tasks[q].pc = "done"
    THEN [fetch EXCEPT !.pc = "returned", !.result = "empty"]
    ELSE fetch

\* _fetch_from_provider and _fetch_<provider>, lines 101-124: the circuit
\* of the provider, its API key, and the budget gate of acquire(); every
\* exception ends in an empty frame
TaskAcquire(p, circuit) ==
    /\ tasks[p].pc = "entered"
    /\ IF circuit = "open" \/ p \notin fetch.keys
       THEN /\ tasks' = [tasks EXCEPT ![p] =
                   [pc |-> "done", result |-> "empty"]]
            /\ fetch' = Completed(p, "empty")
       ELSE IF ~BudgetOk(DailySpent)
       THEN /\ tasks' = [tasks EXCEPT ![p] =
                   [pc |-> "done", result |-> "BudgetExceededError"]]
            /\ fetch' = Completed(p, "empty")
       ELSE /\ tasks' = [tasks EXCEPT ![p].pc = "calling"]
            /\ UNCHANGED fetch
    /\ UNCHANGED <<cbvars, rlvars, brvars, pipevars, szvars>>

\* try_provider, lines 76-86: the provider answered; a frame is cached and
\* its cost recorded
TaskReturn(p, data) ==
    /\ tasks[p].pc = "calling"
    /\ tasks' = [tasks EXCEPT ![p] = [pc |-> "done", result |-> data]]
    /\ fetch' = Completed(p, data)
    /\ IF data = "frame"
       THEN RecordSpend(p, FetchCost)
       ELSE UNCHANGED <<now, rlvars>>
    /\ UNCHANGED <<cbstate, brvars, pipevars, szvars>>

InitFetch ==
    /\ fetch = [pc |-> "idle", result |-> "none", cached |-> FALSE,
                calls |-> 0, keys |-> {}]
    /\ tasks = [p \in FetchProviders |-> NoTask]

(***************************************************************************)
(* Specifications                                                          *)
(***************************************************************************)

Init ==
    /\ InitCB /\ InitRL /\ InitBroker /\ InitPipeline /\ InitSizer
    /\ InitFetch
    /\ risk_call = [called |-> FALSE, quantity |-> 0, limit_price |-> 0,
                    account_value |-> 0, allowed |-> TRUE, reason |-> "OK"]
    /\ timeout_call = [called |-> FALSE, failure_times |-> <<>>,
                       timeouts |-> {}]

NextCB ==
    \/ \E c \in CallIds, p \in Providers : CBStep(CallBegin(c, p))
    \/ \E c \in CallIds : CBStep(CallSuccess(c))
    \/ \E c \in CallIds : CBStep(CallFailure(c))
    \/ \E c \in CallIds : CBStep(CallCancelled(c))
    \/ CBStep(CBTick)

SpecCB == Init /\ [][NextCB]_vars

\* failure times a provider of a breaker can have: time.time() of the
\* failed calls, in the order of their failures, the oldest first (a
\* breaker made with failure_threshold=2, as the tests make it, is open
\* with two of them)
FailureHistories ==
    {h \in UNION {[1..n -> {0, 60, 100, 300, 600}] : n \in 0..MaxFailureTimes} :
        \A i \in 1..(Len(h) - 1) : h[i] <= h[i + 1]}

\* call(), line 25: the recovery timeout of an open circuit whose provider
\* has the failure times ft
TimeoutCall(ft) ==
    /\ timeout_call' = [called |-> TRUE, failure_times |-> ft,
                        timeouts |-> _calculate_ml_recovery_timeout(ft)]
    /\ UNCHANGED <<cbvars, rlvars, brvars, pipevars, fetch, tasks,
                   sizer_call, risk_call>>

NextTimeout == \E ft \in FailureHistories : TimeoutCall(ft)

SpecTimeout == Init /\ [][NextTimeout]_vars

\* _fetch_from_provider("yahoo"), line 105: circuit_breaker.call wraps
\* _fetch_yahoo; tasks["yahoo"] follows the wrapped function
ProviderCall(c) ==
    /\ CallBegin(c, "yahoo")
    /\ tasks' = [tasks EXCEPT !["yahoo"] =
                   IF cb_calls'[c] = NoCall
                   THEN [pc |-> "done", result |-> "CircuitOpenError"]
                   ELSE [pc |-> "calling", result |-> "none"]]
    /\ UNCHANGED <<rlvars, brvars, pipevars, szvars, fetch>>

\* _fetch_yahoo, line 123: rate_limiter.acquire finds the budget used up
\* and raises BudgetExceededError (rate_limiter.py 20-22); the exception
\* leaves the wrapped function and reaches line 44 of call()
ProviderBudgetError(c) ==
    /\ cb_calls[c] # NoCall
    /\ ~BudgetOk(DailySpent)
    /\ CallFailure(c)
    /\ tasks' = [tasks EXCEPT !["yahoo"] =
                   [pc |-> "done", result |-> "BudgetExceededError"]]
    /\ UNCHANGED <<rlvars, brvars, pipevars, szvars, fetch>>

\* _fetch_yahoo got through acquire and the provider answered with a
\* frame, or the request failed
ProviderAnswer(c, data) ==
    /\ cb_calls[c] # NoCall
    /\ BudgetOk(DailySpent)
    /\ IF data = "frame" THEN CallSuccess(c) ELSE CallFailure(c)
    /\ tasks' = [tasks EXCEPT !["yahoo"] = [pc |-> "done", result |-> data]]
    /\ UNCHANGED <<rlvars, brvars, pipevars, szvars, fetch>>

NextProvider ==
    \/ \E c \in CallIds : ProviderCall(c)
    \/ \E c \in CallIds : ProviderBudgetError(c)
    \/ \E c \in CallIds, data \in {"frame", "error"} : ProviderAnswer(c, data)
    \/ \E spent \in EarlierSpends : RLStep(SpendFound(spent))
    \/ \E cost \in Costs : RLStep(RecordSpend("yahoo", cost))
    \/ CBStep(CBTick)

SpecProvider == Init /\ [][NextProvider]_vars

\* the token buckets under concurrent acquirers and recorded latencies
NextRL ==
    \/ \E a \in Acquirers, b \in Buckets : RLStep(AcquireBegin(a, b))
    \/ \E a \in Acquirers : RLStep(AcquireEnter(a))
    \/ \E a \in Acquirers : RLStep(AcquireWake(a))
    \/ \E a \in Acquirers : RLStep(AcquireWrite(a))
    \/ \E p \in PerfProviders, l \in Latencies :
          RLStep(RecordPerformance(p, l))
    \/ RLStep(RLTick)

SpecRL == Init /\ [][NextRL]_vars

\* the lock table: acquirers of the model's buckets while the program
\* acquires for up to a thousand other keys (a universe of a thousand
\* tickers)
OtherKeyCounts == {_lock_cleanup_threshold - 1, _lock_cleanup_threshold}
NextLocks ==
    \/ \E a \in Acquirers, b \in Buckets : RLStep(AcquireBegin(a, b))
    \/ \E a \in Acquirers : RLStep(AcquireEnter(a))
    \/ \E a \in Acquirers : RLStep(AcquireWake(a))
    \/ \E a \in Acquirers : RLStep(AcquireWrite(a))
    \/ \E n \in OtherKeyCounts : RLStep(OtherAcquires(n))
    \/ RLStep(RLTick)

SpecLocks == Init /\ [][NextLocks]_vars

\* the daily budget under concurrent acquirers and recorded spend
NextBudget ==
    \/ \E a \in Acquirers, b \in Buckets : RLStep(AcquireBegin(a, b))
    \/ \E a \in Acquirers : RLStep(AcquireEnter(a))
    \/ \E a \in Acquirers : RLStep(AcquireWake(a))
    \/ \E a \in Acquirers : RLStep(AcquireWrite(a))
    \/ \E p \in SpendProviders, cost \in Costs : RLStep(RecordSpend(p, cost))
    \/ \E spent \in EarlierSpends : RLStep(SpendFound(spent))
    \/ RLStep(RLTick)
    \/ RLStep(RLDay)

SpecBudget == Init /\ [][NextBudget]_vars

\* the notifier, the daily spend recorded by other calls, and the clock
NextNotify ==
    \/ \E channels \in 0..2 : SendAlert(channels)
    \/ \E spent \in EarlierSpends \cup {budget - AlertCost} :
          RLStep(SpendFound(spent))
    \/ \E cost \in Costs : RLStep(RecordSpend("polygon", cost))
    \/ RLStep(RLTick)
    \/ RLStep(RLDay)
    \/ RLStep(RLMidnight)

SpecNotify == Init /\ [][NextNotify]_vars

\* the paper broker under direct callers
NextBroker ==
    \/ \E c \in ApiClients, o \in ApiOrders : BrStep(ApiPlaceOrder(c, o))
    \/ \E c \in Callers : BrStep(PlaceCheck(c))
    \/ \E c \in Callers : BrStep(PlaceFill(c))
    \/ BrStep(InitDb)
    \/ BrStep(BrokerTick)

SpecBroker == Init /\ [][NextBroker]_vars

\* the position sizer under direct callers
NextSizer ==
    \E kf \in SizerFractions, p \in WinProbabilities, ratio \in WinLossRatios,
       c \in SizerCash, v \in SizerPortfolioValues :
          SizerCall(kf, p, ratio, c, v)

SpecSizer == Init /\ [][NextSizer]_vars

\* the risk manager under direct callers
NextRisk ==
    \E q \in RiskQuantities, price \in RiskPrices, v \in PaperCapitals :
        RiskCall(q, price, v)

SpecRisk == Init /\ [][NextRisk]_vars

\* the producer, the daily spend and the running flag
NextProducer ==
    \/ \E v \in {"main", "core"} : PipeStep(Startup(v))
    \/ \E universe \in Universes : PipeStep(ProducerStart(universe))
    \/ PipeStep(ProducerStep)
    \/ PipeStep(Shutdown)
    \/ \E acked \in SUBSET Workers : PipeStep(SignalHandler(acked))
    \/ \E spent \in EarlierSpends : RLStep(SpendFound(spent))
    \/ \E p \in SpendProviders, cost \in Costs : RLStep(RecordSpend(p, cost))

SpecProducer == Init /\ [][NextProducer]_vars

\* fetch_ohlcv, its coroutines and the daily spend
NextFetch ==
    \/ \E keys \in KeySets : FetchStart(keys)
    \/ \E p \in FetchProviders : TaskEnter(p)
    \/ \E p \in FetchProviders, circuit \in {"closed", "open"} :
          TaskAcquire(p, circuit)
    \/ \E p \in FetchProviders, data \in {"frame", "empty"} :
          TaskReturn(p, data)
    \/ \E spent \in EarlierSpends : RLStep(SpendFound(spent))
    \/ \E cost \in Costs : RLStep(RecordSpend("notifications", cost))

SpecFetch == Init /\ [][NextFetch]_vars

\* the pipeline of either orchestrator
NextPipeline ==
    \/ \E v \in {"main", "core"} : PipeStep(Startup(v))
    \/ \E content \in KillContents : PipeStep(SetKillFile(content))
    \/ PipeStep(Shutdown)
    \/ \E acked \in SUBSET Workers : PipeStep(SignalHandler(acked))
    \/ \E acked \in SUBSET Workers : PipeStep(MainFails(acked))
    \/ \E universe \in {Universe} : PipeStep(ProducerStart(universe))
    \/ PipeStep(ProducerStep)
    \/ \E w \in Workers : PipeStep(WorkerRead(w))
    \/ \E w \in Workers : PipeStep(WorkerStop(w))
    \/ CacheFound
    \/ \E w \in Workers : MainAcquire(w)
    \/ \E w \in Workers, data \in {"frame", "empty"} : MainFetched(w, data)
    \/ \E w \in Workers, out \in PredictOutcomes, m \in ModelInputs :
          PipeStep(MainPredict(w, out, m))
    \/ \E w \in Workers : PipeStep(ExecCheck(w))
    \/ \E w \in Workers : PipeStep(WorkerPlaceCheck(w))
    \/ \E w \in Workers : PipeStep(WorkerPlaceFill(w))
    \/ \E w \in Workers, ok \in BOOLEAN : PipeStep(ExecStore(w, ok))
    \/ \E w \in Workers, ok \in BOOLEAN : PipeStep(ExecPublish(w, ok))
    \/ \E w \in Workers : PipeStep(MainRetry(w))
    \/ \E w \in Workers : PipeStep(CoreBegin(w))
    \/ \E w \in Workers : PipeStep(CoreAcquire(w))
    \/ \E w \in Workers : PipeStep(CoreAcquired(w))
    \/ \E w \in Workers : PipeStep(WorkerAck(w))
    \/ \E w \in Workers : PipeStep(WorkerTimeout(w))
    \/ \E w \in Workers : PipeStep(WorkerAcquireStep(w))
    \/ PipeStep(PipeInitDb)
    \/ PipeStep(PipeTick)

SpecPipeline == Init /\ [][NextPipeline]_vars

\* the steps of the task of worker w: the event loop resumes a task whose
\* await has completed
WorkerTask(w) ==
    \/ PipeStep(WorkerRead(w))
    \/ PipeStep(WorkerStop(w))
    \/ MainAcquire(w)
    \/ \E data \in {"frame", "empty"} : MainFetched(w, data)
    \/ \E out \in PredictOutcomes, m \in ModelInputs :
          PipeStep(MainPredict(w, out, m))
    \/ PipeStep(ExecCheck(w))
    \/ PipeStep(WorkerPlaceCheck(w))
    \/ PipeStep(WorkerPlaceFill(w))
    \/ \E ok \in BOOLEAN : PipeStep(ExecStore(w, ok))
    \/ \E ok \in BOOLEAN : PipeStep(ExecPublish(w, ok))
    \/ PipeStep(MainRetry(w))
    \/ PipeStep(CoreBegin(w))
    \/ PipeStep(CoreAcquire(w))
    \/ PipeStep(CoreAcquired(w))
    \/ PipeStep(WorkerAck(w))
    \/ PipeStep(WorkerTimeout(w))
    \/ PipeStep(WorkerAcquireStep(w))

\* the pipeline under the scheduling of the asyncio event loop: every task
\* that can run is run, main() goes on once the producer task is done, and
\* time passes.  The steps of the operator and of the caller (start-up,
\* kill file, signal, shutdown, a further batch) need not happen.
SpecPipelineFair ==
    /\ SpecPipeline
    /\ \A w \in Workers : WF_vars(WorkerTask(w))
    /\ WF_vars(PipeStep(ProducerStep))
    /\ WF_vars(\E acked \in SUBSET Workers : PipeStep(MainFails(acked)))
    /\ WF_vars(PipeStep(PipeTick))

(***************************************************************************)
(* Circuit-breaker properties                                              *)
(***************************************************************************)

\* C4: after failure_threshold failing calls in a row (no success between
\* them) the provider's state is open, and a call begun on an open circuit
\* no later than base_recovery_timeout after the last failure is rejected
\* with CircuitOpenError, the wrapped function not being invoked.
C4_OpenAfterThreshold ==
    \A p \in Providers :
        /\ (cb_last[p].outcome = "failure"
              /\ cb_consec_fail[p] >= failure_threshold)
             => states[p] = "open"
        /\ (cb_last[p].outcome \in {"begun", "rejected"}
              /\ cb_last[p].pre = "open"
              /\ cb_last[p].elapsed <= base_recovery_timeout)
             => (cb_last[p].outcome = "rejected" /\ ~cb_last[p].invoked)

C4_Witness ==
    \E p \in Providers :
        /\ cb_last[p].outcome = "rejected"
        /\ cb_consec_fail[p] >= failure_threshold
        /\ states[p] = "open"
        /\ failures[p] = failure_threshold

\* C5: once the circuit is open and the recovery timeout has elapsed, the
\* first successful call leaves the state half-open with a half-open
\* success count of 1, and the second successful call in a row closes the
\* circuit with failure count 0.
C5_TwoSuccessesClose ==
    \A p \in Providers :
        /\ cb_run[p] = 1
             => (states[p] = "half-open" /\ success_half_open[p] = 1)
        /\ cb_run[p] = 2
             => (states[p] = "closed" /\ failures[p] = 0)

\* C6: a failing call on a half-open circuit sets the state to open at once.
C6_HalfOpenFailureReopens ==
    \A p \in Providers :
        (cb_last[p].outcome = "failure" /\ cb_last[p].pre = "half-open")
            => states[p] = "open"

(***************************************************************************)
(* Rate-limiter properties                                                 *)
(***************************************************************************)

\* C7: the token count stored for a bucket is never negative and never
\* above the bucket's capacity (its per-minute limit).
C7_TokensInRange ==
    \A b \in Buckets :
        buckets[b] # NoBucket
            => (0 <= buckets[b].tokens
                  /\ buckets[b].tokens <= LimitOf(b) * TokenScale)

\* C8: when the stored daily spend has reached the budget, the budget check
\* fails, an acquire that begins raises BudgetExceededError and leaves every
\* bucket as it was, and the spend stays at or above the budget until the
\* counter's key expires.
C8_BudgetGate ==
    [][DailySpent >= budget
         => /\ ~BudgetOk(DailySpent)
            /\ \A a \in Acquirers :
                 (acq[a].pc = "idle" /\ acq'[a] # acq[a])
                    => (acq'[a] = [pc |-> "idle",
                                   result |-> "BudgetExceededError"]
                          /\ buckets' = buckets)
            /\ (SpentAt(now') >= budget
                  \/ (spent_expires # NoExpiry /\ now' >= spent_expires))]_vars

C8_Witness ==
    \E a \in Acquirers :
        /\ acq[a].result = "BudgetExceededError"
        /\ DailySpent >= budget
        /\ \E b \in Buckets : buckets[b] # NoBucket

(***************************************************************************)
(* Broker properties                                                       *)
(***************************************************************************)

C2_ReturnsOriginalId ==
    \A k \in AllKeys :
        later[k].result # NoResult => later[k].result = first_id[k]

(***************************************************************************)
(* Pipeline properties                                                     *)
(***************************************************************************)

\* C3: in the pipeline of main.py the broker executes at most one order
\* for one delivered work item, however many times process_ticker_safe
\* re-runs process_ticker for it.
C3_OneOrderPerItem ==
    \A w \in Workers : variant = "main" => wk[w].fills <= 1

\* C9: a worker that is delivered the end-of-batch marker returns at once:
\* from then on it reads, processes and acknowledges nothing, and the
\* delivery of the marker leaves every later message of the stream
\* undelivered and in the stream.
C9_PillStopsWorker ==
    [][\A w \in Workers :
         /\ (~read_pill[w] /\ read_pill'[w])
              => /\ wk'[w].pc = "exited"
                 /\ last_delivered' = last_delivered + 1
                 /\ stream[last_delivered'].end
                 /\ stream' = stream
                 /\ \A m \in pending' : m[1] <= last_delivered'
         /\ read_pill[w]
              => /\ wk[w].pc = "exited"
                 /\ wk'[w] = wk[w]
                 /\ {m \in pending' : m[2] = w} = {m \in pending : m[2] = w}
                 /\ acq'[w] = acq[w]
                 /\ po'[w] = po[w]]_vars

C9_Witness ==
    \E w \in Workers, v \in Workers :
        /\ v # w
        /\ read_pill[w]
        /\ wk[w].pc = "exited"
        /\ wk[v].pc = "begin"
        /\ wk[v].msg > wk[w].msg
        /\ ~stream[wk[v].msg].end

\* C10: an item whose processing begins (the worker is not cancelled first)
\* while the kill switch is active ends with outcome killed, and its first
\* step makes no acquire, records
\* no spend, fetches nothing and places no order; this is so for every
\* item, not only at process start.
C10_KillSwitchEveryItem ==
    [][\A w \in Workers :
         (Started /\ wk[w].pc = "begin" /\ ~CheckKillSwitch
            /\ wk'[w] # wk[w] /\ wk'[w].pc # "exited")
           => /\ wk'[w].pc = "done"
              /\ wk'[w].result = "killed"
              /\ acq'[w] = acq[w]
              /\ UNCHANGED <<buckets, daily_spent, by_provider, po, cash,
                             positions, orders>>]_vars

\* C11: execute_signal passes no order to broker.place_order whose size, as
\* chosen by the position sizer, exceeds max_position_percent of the
\* account value: validate_order refuses it and nothing is placed.
C11_RiskLimitEnforced ==
    [][\A w \in Workers :
         (wk[w].pc = "exec_check" /\ wk'[w].pc = "placing")
           => po'[w].order.quantity * 100
                 <= max_position_percent * PortfolioValue]_vars

\* C12: place_order rejects, by raising and with cash and positions left as
\* they were, a buy whose cost exceeds the cash and a sell whose quantity
\* exceeds the quantity held for the symbol (a symbol not held included).
C12_RejectsUncovered ==
    [][\A c \in Callers :
         LET order == po[c].order
             uncovered ==
                 \/ order.action = "buy" /\ Cost(order) > cash
                 \/ /\ order.action = "sell"
                    /\ order.quantity > positions[order.symbol].quantity
         IN (po[c].pc = "fill" /\ po'[c].pc = "idle" /\ uncovered)
              => /\ cash' = cash
                 /\ positions' = positions
                 /\ po'[c].result.kind # "paper"]_vars

(***************************************************************************)
(* Position sizer properties                                               *)
(***************************************************************************)

\* C13: calculate_position_size returns exactly 0, and does not raise, for
\* every input with win_probability <= 0, win_probability >= 1 or
\* win_loss_ratio <= 0.
C13_DegenerateInputsGiveZero ==
    ( /\ sizer_call.called
      /\ \/ sizer_call.win_probability <= 0
         \/ sizer_call.win_probability >= KellyScale
         \/ sizer_call.num <= 0 )
      => ~sizer_call.raised /\ sizer_call.size = 0

C15_AckBeforeNextRead ==
    \A w \in Workers :
        wk[w].pc = "poll"
          => \A m \in pending : m[2] = w => stream[m[1]].end

\* C16: when the time allowed for an item runs out, one record with the
\* ticker and the reason is appended to the dead-letter log and the failed
\* counter is incremented.
C16_TimeoutIsRecorded ==
    [][\A w \in Workers :
         (wk[w].pc \in AwaitPcs /\ wk'[w].pc = "poll")
           => /\ dead_letter' =
                    Append(dead_letter,
                           [ticker |-> Ticker(w), reason |-> "timeout"])
              /\ metrics'.failed_tickers = metrics.failed_tickers + 1]_vars

C18_AtMostTwoAttempts ==
    [][\A w \in Workers :
         variant = "main" =>
           /\ (wk[w].pc # "begin" /\ wk'[w].pc = "begin")
                => \/ wk[w].pc = "poll" /\ wk'[w].attempt = 0
                   \/ /\ wk[w].pc = "retry_sleep"
                      /\ wk'[w].attempt = wk[w].attempt + 1
                      /\ wk'[w].attempt < MaxAttempts
                      /\ wk'[w].msg = wk[w].msg
           /\ (wk[w].pc # "done" /\ wk'[w].pc = "done")
                => IF wk[w].pc = "retry_sleep"
                   THEN /\ wk[w].attempt = MaxAttempts - 1
                        /\ wk'[w].result = "none"
                        /\ metrics'.failed_tickers
                              = metrics.failed_tickers + 1
                   ELSE wk'[w].result \in {"success", "failed"}
           /\ (wk[w].pc = "done" /\ wk'[w] # wk[w])
                => wk'[w].pc \in {"poll", "exited"}]_vars

C18_Witness ==
    \E w \in Workers :
        /\ variant = "main"
        /\ wk[w].pc = "done"
        /\ wk[w].attempt = MaxAttempts - 1
        /\ wk[w].result = "none"
        /\ metrics.failed_tickers = 1

(***************************************************************************)
(* Market-data properties                                                  *)
(***************************************************************************)

\* C19: a BudgetExceededError raised while an item is being processed ends
\* the item's cycle: once acquire() has raised it for one provider of the
\* item's fetch, no coroutine of that fetch attempts another acquire
\* (neither one that passes the gate towards the external call nor one
\* that raises again).
C19_BudgetErrorEndsCycle ==
    [][\A p \in FetchProviders :
          (\E q \in FetchProviders : tasks[q].result = "BudgetExceededError")
          => ~(/\ tasks[p].pc = "entered"
               /\ \/ tasks'[p].pc = "calling"
                  \/ tasks'[p].result = "BudgetExceededError")]_vars

(***************************************************************************)
(* Scorer properties                                                       *)
(***************************************************************************)

\* C20: an item whose scorer confidence is below min_confidence ends with
\* outcome skipped, neither success nor failed, and nothing is pushed to
\* signals:queue, sized or ordered for it: a prediction step that ends the
\* item without having pushed a signal does not end it with outcome
\* success, and it counts no signal.
C20_LowConfidenceSkipped ==
    [][\A w \in Workers :
          (/\ wk[w].pc = "analyse"
           /\ wk'[w].pc = "done"
           /\ signals_queue' = signals_queue)
          => /\ wk'[w].result # "success"
             /\ metrics'.total_signals = metrics.total_signals
             /\ po' = po
             /\ orders' = orders]_vars

(***************************************************************************)
(* Risk-manager properties                                                 *)
(***************************************************************************)

\* C21: validate_order returns allowed = false, with a reason naming the
\* exceeded limit, exactly when quantity x limit_price exceeds the
\* max-position fraction of the current account value, and allowed = true
\* with reason OK otherwise.
C21_RiskVerdict ==
    risk_call.called =>
       LET exceeds == risk_call.quantity * risk_call.limit_price * 100
                        > max_position_percent * risk_call.account_value
       IN /\ risk_call.allowed = ~exceeds
          /\ risk_call.reason = IF exceeds THEN "exceeds limit" ELSE "OK"

(***************************************************************************)
(* Paper-account properties                                                *)
(***************************************************************************)

\* C22: an accepted buy of quantity q at limit price p takes q * p from the
\* cash and records a position of quantity q for the symbol; an accepted
\* sell of quantity q at limit price p2 removes the symbol from the
\* positions and adds q * p2 to the cash (so 10 @ 150 and then 10 @ 160 on
\* 100,000 give 98,500 and then 100,100).
C22_BuyThenSell ==
    [][\A c \in Callers :
          (/\ po[c].pc = "fill"
           /\ po'[c].result.kind = "paper"
           /\ po[c].order.limit_price # 0)
          => LET order == po[c].order
                 value == order.quantity * order.limit_price
             IN IF order.action = "buy"
                THEN /\ cash' = cash - value
                     /\ positions'[order.symbol].quantity = order.quantity
                ELSE /\ cash' = cash + value
                     /\ positions'[order.symbol] = NoPosition]_vars

\* 10 @ 150 was bought and 10 @ 160 then sold on the initial capital
C22_Witness ==
    /\ cash = initial_capital - 10 * 150 + 10 * 160
    /\ positions["AAPL"] = NoPosition
    /\ fill_count = 2
    /\ \E e \in orders : e.order.action = "buy" /\ e.order.quantity = 10
    /\ \E e \in orders : e.order.action = "sell"

(***************************************************************************)
(* Notifier properties                                                     *)
(***************************************************************************)

\* C23: send_alert is budget-gated: once the daily spend has reached the
\* daily budget a further send_alert raises BudgetExceededError instead of
\* sending, so the spend recorded for notifications does not grow while the
\* daily spend is at or above the budget.
C23_AlertsBudgetGated ==
    [][by_provider'["notifications"] > by_provider["notifications"]
          => BudgetOk(DailySpent)]_vars

(***************************************************************************)
(* Drift properties                                                        *)
(***************************************************************************)

\* C24: whether the drift collaborator reports drift has no effect on the
\* item's outcome: from any state in which an item is at its model stage,
\* two runs of the stage that differ only in the drift flag leave the
\* worker with the same status, signals:queue with the same content and
\* the same signal to execute.
C24_DriftHasNoEffect ==
    \A w \in Workers :
        (variant = "main" /\ wk[w].pc = "analyse")
        => \A out \in PredictOutcomes, retrain_needed \in BOOLEAN :
              PredictStage(w, out, TRUE, retrain_needed)
                 = PredictStage(w, out, FALSE, retrain_needed)

(***************************************************************************)
(* Worker-loop properties                                                  *)
(***************************************************************************)

\* C25: no exception raised while an item is processed terminates a
\* worker: a worker leaves its loop only at its poll, by reading the end
\* marker or by finding running false, or by the cancellation of the
\* tasks, and after an item that ended in an error it polls again.
C25_ErrorsKeepWorker ==
    [][\A w \in Workers :
          LET cancelled == wk'[w].result = "CancelledError"
          IN /\ (wk[w].pc # "exited" /\ wk'[w].pc = "exited")
                => \/ cancelled
                   \/ /\ wk[w].pc = "poll"
                      /\ \/ ~running
                         \/ /\ last_delivered' = last_delivered + 1
                            /\ stream[last_delivered'].end
             /\ (/\ wk[w].pc = "done"
                 /\ wk[w].result # "success"
                 /\ wk'[w].pc # "done")
                => (cancelled \/ wk'[w].pc = "poll")]_vars

\* both attempts at an item raised, it was counted and acknowledged, and
\* the worker polls again
C25_Witness ==
    /\ variant = "main"
    /\ running
    /\ metrics.failed_tickers = 2
    /\ pending = {}
    /\ \E w \in Workers : wk[w].pc = "poll" /\ ~read_pill[w]
    /\ \A w \in Workers : wk[w].pc # "exited"

\* C26: with the workers of the consumer group started and running left
\* true, once the producer has written the end-of-batch marker of a batch
\* every worker eventually leaves its loop; no worker polls forever.
C26_EveryWorkerExits ==
    \A w \in Workers :
        (Started /\ \E i \in 1..Len(stream) : stream[i].end)
           ~> (wk[w].pc = "exited" \/ ~running)

\* C27: a message that was delivered to a worker and is no longer being
\* processed by it while still unacknowledged (the worker timed out, was
\* cancelled or stopped before its xack) is eventually delivered again to
\* a worker of the group, or is recorded in the dead-letter stream; it
\* does not stay in the pending list for ever with nobody working on it.
C27_UnackedRedelivered ==
    \A m \in 1..(MaxBatches * (Len(Universe) + 1)), w \in Workers :
        (/\ <<m, w>> \in pending
         /\ ~stream[m].end
         /\ wk[w].pc \in {"poll", "exited"})
           ~> \/ <<m, w>> \notin pending
              \/ \E v \in Workers :
                    wk[v].msg = m /\ wk[v].pc \notin {"poll", "exited"}
              \/ /\ m <= Len(stream)
                 /\ \E i \in 1..Len(dead_letter) :
                       dead_letter[i].ticker = stream[m].ticker

\* C28: the shutdown signal only sets running to false: a worker that is
\* in the middle of an item, when the signal arrives or afterwards, is not
\* cancelled.  It keeps its item, its acquire call and its broker call
\* across the step of the signal, and it leaves its loop only from its
\* poll, after the item has been completed and acknowledged.
C28_SignalLetsItemsFinish ==
    [][\A w \in Workers :
         (wk[w].pc \notin {"poll", "exited"} /\ ~running')
           => /\ wk'[w].pc # "exited"
              /\ (running => /\ wk'[w] = wk[w]
                             /\ acq'[w] = acq[w]
                             /\ po'[w] = po[w]
                             /\ <<wk[w].msg, w>> \in pending')]_vars

\* C29: acquire ends in no error but BudgetExceededError, whatever limit
\* the program passes: a call that got past the budget gate waits if it
\* has to and returns, also the admission call of orchestrator.py with a
\* limit of 0, so that an item whose acquire was let through by the budget
\* gate goes on to its fetch.
C29_AcquireOnlyBudgetError ==
    /\ \A a \in Acquirers :
          acq[a].result \in {"none", "ok", "BudgetExceededError"}
    /\ \A w \in Workers :
          (variant = "core" /\ wk[w].pc = "done" /\ wk[w].result = "failed")
             => acq[w].result # "ZeroDivisionError"

\* C30: at any time at most one acquire call is between the read and the
\* write of a given bucket (inside the section the lock of the key
\* protects), also after the lock table was cleared because it had grown
\* past its cleanup threshold.
C30_OneInSection ==
    \A b \in Buckets :
        Cardinality({a \in Acquirers :
                        /\ acq[a].pc \in {"sleeping", "writing"}
                        /\ acq[a].bucket = b}) <= 1

\* C31: whatever the interleaving of the call() invocations on a provider,
\* its state changes only from closed to open, from open to half-open and
\* from half-open to closed or to open; in particular never from open to
\* closed.
C31_LegalTransitions ==
    [][\A p \in Providers :
         states'[p] # states[p]
           => <<states[p], states'[p]>> \in
                 {<<"closed", "open">>, <<"open", "half-open">>,
                  <<"half-open", "closed">>, <<"half-open", "open">>}]_vars

\* C32: in every reachable state the circuit of a provider is open exactly
\* when its failure count has reached the threshold and less than the
\* recovery timeout (one of the values the breaker can compute for it) has
\* passed since its last failure.
C32_OpenIffFailing ==
    \A p \in Providers :
        states[p] = "open"
          <=> /\ ThresholdReached(failures[p])
              /\ \E timeout \in RecoveryTimeouts(p) :
                    now - last_failure[p] < timeout

\* C33: the daily spend counter (what GET budget:daily_spent gives) does
\* not decrease between two moments of the same UTC day, and at the first
\* moment of a new UTC day it is zero, however recently spend was
\* recorded, so that _check_budget_atomic gives true again.
C33_DailyCounter ==
    [][LET after == IF spent_expires' # NoExpiry /\ now' >= spent_expires'
                    THEN 0 ELSE daily_spent'
       IN IF now' \div SpendTTL = now \div SpendTTL
          THEN after >= DailySpent
          ELSE after = 0 /\ BudgetOk(after)]_vars

\* C34: the recovery timeout applied to an open circuit is the fixed base
\* timeout when the provider has fewer than 2 recorded failure times, and
\* with 2 or more it is the adaptive value: the base timeout stretched by
\* the drawn time to the next failure, within [60, 600] seconds.
C34_AdaptiveTimeout ==
    timeout_call.called =>
       LET ft == timeout_call.failure_times
           adaptive == {Max(MinRecoveryTimeout,
                            Min(MaxRecoveryTimeout,
                                base_recovery_timeout
                                  + (base_recovery_timeout * x) \div 100))
                        : x \in IF ft[Len(ft)] = ft[1] THEN {0}
                                ELSE ExponSamples}
       IN IF Len(ft) < 2
          THEN timeout_call.timeouts = {base_recovery_timeout}
          ELSE /\ timeout_call.timeouts = adaptive
               /\ \A t \in timeout_call.timeouts :
                     MinRecoveryTimeout <= t /\ t <= MaxRecoveryTimeout

\* C35: a BudgetExceededError that acquire raises inside the function
\* wrapped by circuit_breaker.call is not a failure of the provider: the
\* step in which it is raised leaves the failure count, the last failure
\* time and the failure times of the provider as they were and does not
\* open its circuit.
C35_BudgetErrorNotCounted ==
    [][(tasks["yahoo"].pc = "calling"
          /\ tasks'["yahoo"].result = "BudgetExceededError")
         => /\ failures'["yahoo"] = failures["yahoo"]
            /\ last_failure'["yahoo"] = last_failure["yahoo"]
            /\ failure_times'["yahoo"] = failure_times["yahoo"]
            /\ states'["yahoo"] = states["yahoo"]]_vars

\* the signals a caller of execute_signal holds for the streamed ticker:
\* one timestamp, so one order key
ExecSignals ==
    { [action |-> out.action, p |-> out.p, num |-> out.num,
       den |-> out.den, timestamp |-> 0] : out \in SignalInputs }

\* execute_signal(signal, fundamentals) is called in task w for the first
\* ticker of the stream, with the signal the other task was given
ExecuteSignal(w, signal) ==
    /\ variant = "main"
    /\ wk[w].pc = "poll"
    /\ Len(stream) >= 1
    /\ ~IsPill(stream[1])
    /\ \A v \in Workers : wk[v].sig \in {NoSignal, signal}
    /\ wk' = [wk EXCEPT ![w] = [WkPoll EXCEPT !.pc = "exec_check",
                                              !.msg = 1,
                                              !.started = now,
                                              !.sig = signal]]
    /\ UNCHANGED <<now, rlvars, brvars, variant, running, kill_file, stream,
                   last_delivered, pending, producer, signals_queue,
                   dead_letter, metrics, read_pill>>

\* execute_signal of main.py under callers that run it once in each of
\* two tasks
NextExec ==
    \/ PipeStep(Startup("main"))
    \/ PipeStep(ProducerStart(Universe))
    \/ PipeStep(ProducerStep)
    \/ PipeStep(PipeInitDb)
    \/ \E w \in Workers, signal \in ExecSignals :
          PipeStep(ExecuteSignal(w, signal))
    \/ \E w \in Workers : PipeStep(ExecCheck(w))
    \/ \E w \in Workers : PipeStep(WorkerPlaceCheck(w))
    \/ \E w \in Workers : PipeStep(WorkerPlaceFill(w))
    \/ \E w \in Workers, ok \in BOOLEAN : PipeStep(ExecStore(w, ok))
    \/ \E w \in Workers, ok \in BOOLEAN : PipeStep(ExecPublish(w, ok))

SpecExec == Init /\ [][NextExec]_vars

\* C36: of two execute_signal invocations for the same signal (the same
\* order key) that run at the same time, place_order fills for at most
\* one: never have both come back from place_order with a fill.
C36_OneFillPerKey ==
    \A w \in Workers, v \in Workers :
        ~(/\ w # v
          /\ wk[w].pc = "placing" /\ wk[v].pc = "placing"
          /\ po[w].pc = "idle" /\ po[v].pc = "idle"
          /\ po[w].result.kind = "paper" /\ po[v].result.kind = "paper"
          /\ po[w].order.key = po[v].order.key)

\* C37: when place_order raises, the paper account is as it was: the step
\* in which a call ends with an exception (insufficient funds, or the
\* failed audit write) leaves cash, positions and the orders ledger
\* unchanged.
C37_RaiseLeavesLedger ==
    [][\A c \in Callers :
         (/\ po[c].pc # "idle"
          /\ po'[c].pc = "idle"
          /\ po'[c].result.kind \in {"Insufficient funds", "NameError"})
           => /\ cash' = cash
              /\ positions' = positions
              /\ orders' = orders]_vars

\* C38: the order_id place_order returns for an accepted order differs
\* from the id of every order accepted before, and the orders ledger gains
\* one entry with it.
C38_FreshOrderId ==
    [][\A c \in Callers :
         (po[c].pc = "fill" /\ po'[c].result.kind = "paper")
           => /\ \A e \in orders : e.order_id # po'[c].result
              /\ Cardinality(orders') = Cardinality(orders) + 1]_vars

\* C39: an accepted buy moves money from cash into the position: the
\* portfolio_value of get_account_summary is the same after the fill as
\* before it, also when the symbol was already held.
C39_BuyKeepsPortfolioValue ==
    [][\A c \in Callers :
         (/\ po[c].pc = "fill"
          /\ po[c].order.action = "buy"
          /\ po'[c].result.kind = "paper")
           => PortfolioValue' = PortfolioValue]_vars

\* C40: every item a worker has dequeued and finished is counted once, as
\* processed or as failed: whenever no worker holds an item and none was
\* cancelled, processed_tickers + failed_tickers is the number of items
\* delivered so far.
C40_OneCountPerItem ==
    (\A w \in Workers :
        /\ wk[w].pc \in {"poll", "exited"}
        /\ wk[w].result # "CancelledError")
      => metrics.processed_tickers + metrics.failed_tickers
           = Cardinality({id \in 1..last_delivered : ~stream[id].end})

====
